---- MODULE Spec2Model ----
(***************************************************************************)
(* A model of element-builder: the Windows build driver                    *)
(* (src/src/windows_builder.ts), the process executor (src/src/spawn.ts)   *)
(* and the two orchestrators that drive them (src/src/desktop_develop.ts,  *)
(* src/src/desktop_release.ts).                                            *)
(*                                                                         *)
(* The specifications share the variables:                                 *)
(*   Spec        one Windows build attempt (buildWin) with the driver's    *)
(*               start/stop/runScript modelled step by step, a step being  *)
(*               the code between two awaits;                              *)
(*   SpecPoll    the orchestrator's build cycle (poll / startBuild) over   *)
(*               the configured targets, the driver calls settling in one  *)
(*               step each;                                                *)
(*   SpecScript  appendScript applied to arbitrary argument lists;         *)
(*   SpecSecrets the script run of an attempt for every choice of secrets; *)
(*   SpecStop    stop() called by buildWin on a running or a stopped VM;   *)
(*   SpecVersion getBuildVersion applied to last builds of several days.   *)
(*                                                                         *)
(* Time is in milliseconds, as in the code.  A text is a sequence of       *)
(* atoms; the atom " " is a space, CRLF is "\r\n".                         *)
(***************************************************************************)
EXTENDS Integers, Sequences, FiniteSets, TLC

\* ------------------------------------------------------------------ bounds
\* the longest time one guest ping (VBoxManage guestcontrol) takes, in seconds
MaxPingSecs == 1
\* the largest non-zero exit code a process ends with
MaxExitCode == 1
\* the most chunks of output the guest script writes
MaxChunks == 2
\* the most arguments of one appendScript call
MaxArgs == 2
\* the most appendScript calls in SpecScript
MaxCalls == 2
\* the most minutes a guest execution is followed for
MaxBeats == 2

\* the update packages a directory may hold
MaxFiles == 17
\* the builder processes started in one working directory
MaxProcs == 3

\* ------------------------------------------------------- program constants
\* the secrets of a session: RIOTBUILD_WIN_PASSWORD, the secret
\* riot_key_container and BUILDKITE_API_KEY
SecretValues ==
    [password : {"pw1", "pw2"}, keyContainer : {"kc1", "kc2"}, apiKey : {"api1", "api2"}]
Secrets0 == [password |-> "pw1", keyContainer |-> "kc1", apiKey |-> "api1"]
STARTVM_TIMEOUT == 90 * 1000
POWEROFF_TIMEOUT == 20 * 1000
\* the fixed sleeps of start(), mapBuildDir() and stop()
SettleDelay == 2 * 1000
BootDelay == 5 * 1000
PingDelay == 2 * 1000
MapDelay == 4 * 1000
StopPollDelay == 1 * 1000
\* the update packages pruneBuilds keeps
KEEP_BUILDS_NUM == 14

\* a process that was killed by a signal ends with no exit code (null)
NoCode == 0 - 1
ExitCodes == {NoCode} \cup (0..MaxExitCode)

CRLF == "\r\n"
GUARD == "if %errorlevel% neq 0 exit /b %errorlevel%"

NoErr == [kind |-> "none", code |-> 0, log |-> << >>]
Err(k) == [kind |-> k, code |-> 0, log |-> << >>]
\* no driver call has settled unconsumed
NoRes == [op |-> "none", err |-> NoErr]
NoGuestCode == 0 - 2

\* durations a guest ping can take
PingDurations == {s * 1000 : s \in 0..MaxPingSecs}

\* the literal of `while (attempts < 5)`
MaxMapAttempts == 5

VARIABLES
    \* configuration of the process
    mode,           \* "nightly" (DesktopDevelopBuilder) or "release" (DesktopReleaseBuilder)
    dongleCfg,      \* UHUBCTL_DONGLE_POWER_LOCATION and _PORT_NUMBER are both set
    targets,        \* options.targets: the platform of each configured target
    secrets,        \* the guest password, the signing-key container, BUILDKITE_API_KEY
    \* the environment
    vmRunning,      \* the VM is in VirtualBox's list of running VMs
    dongleOn,       \* the signing dongle's USB port is powered
    acpiSent,       \* the guest has received the ACPI power-button event
    tmpFile,        \* tmp.cmd exists in the shared build directory
    tmpText,        \* the content of tmp.cmd
    \* WindowsBuilder
    dpc,            \* the driver's position: the await it is suspended at
    stopCaller,     \* who awaits the running stop(): "start" or "buildWin"
    success,        \* start(): let success
    isRunning,      \* start(): const isRunning / stop(): let isRunning
    elapsed,        \* Date.now() minus the instant waitUntil was computed from
    attempts,       \* mapBuildDir(): let attempts
    script,         \* this.script
    calls,          \* the argument lists appendScript was called with
    timer,          \* runScript(): the heartbeat interval is set
    dres,           \* the settlement of the driver call last awaited
    \* the child process of runScript()'s guest execution
    out,            \* the chunks the process writes to stdout/stderr
    delivered,      \* how many 'data' events have been delivered
    \* buildWin
    bpc,            \* buildWin's position
    berr,           \* the error pending in buildWin's try block
    \* the orchestrator's cycle
    building,       \* this.building
    force,          \* this.force
    toBuild,        \* poll(): const toBuild, as indexes into options.targets
    cur,            \* the position in toBuild of the target being built
    buildNumber,    \* poll(): const [thisBuildVersion, buildNumber]
    lastBuildTimes, \* this.lastBuildTimes: target -> [time, number]
    lastFailTimes,  \* this.lastFailTimes: target -> time
    lastBuilt,      \* the files desktop_develop_lastBuilt_<target>
    clock,          \* Date.now(), in hours
    \* pruneBuilds
    pubDir,         \* the names of the files in the update directory
    ppc,            \* pruneBuilds' position
    toDelete,       \* pruneBuilds(): const toDelete
    \* the builder processes started in one working directory
    lockFile,       \* the content of element-builder.lock
    mpc,            \* each process's position in index.ts
    \* history, for stating properties
    hist,           \* of the current build attempt
    cyc             \* of the current build cycle

cfgVars == <<mode, dongleCfg, targets, secrets>>
envVars == <<vmRunning, dongleOn, acpiSent, tmpFile, tmpText>>
procVars == <<out, delivered>>
bwVars == <<bpc, berr>>
pollVars == <<building, force, toBuild, cur, buildNumber, lastBuildTimes, lastFailTimes,
              lastBuilt, clock, cyc>>
pruneVars == <<pubDir, ppc, toDelete>>
lockVars == <<lockFile, mpc>>
vars == <<mode, dongleCfg, targets, secrets, vmRunning, dongleOn, acpiSent, tmpFile, tmpText,
          pubDir, ppc, toDelete, lockFile, mpc,
          dpc, stopCaller, success, isRunning, elapsed, attempts, script, calls, timer, dres,
          out, delivered, bpc, berr,
          building, force, toBuild, cur, buildNumber, lastBuildTimes, lastFailTimes,
          lastBuilt, clock, hist, cyc>>

\* ------------------------------------------------------------ JavaScript
\* the truthiness of an exit code: null and 0 are falsy
Truthy(code) == code # NoCode /\ code # 0

\* spawn.ts: proc.on('exit'): `if (!code) { resolve(); return; }`
SpawnResolves(code) == ~Truthy(code)

\* args.join(" ") on an argument list of strings
RECURSIVE joinArgs(_)
joinArgs(args) ==
    IF Len(args) = 0 THEN ""
    ELSE IF Len(args) = 1 THEN args[1]
    ELSE args[1] \o " " \o joinArgs(Tail(args))

\* spawn.ts: the log starts with the command line; then the delivered chunks
LogHeader(command, args) ==
    "# Running command \"" \o command \o " " \o joinArgs(args) \o "\"\n"
ExitLine(code) == "\nExit code: " \o ToString(code)

\* spawn.ts: the settlement of spawn(command, args) when 'exit' arrives with
\* `code` after the chunks `got` were delivered
SpawnSettle(command, args, code, got) ==
    IF SpawnResolves(code)
    THEN NoErr
    ELSE [kind |-> "LoggableError", code |-> code,
          log |-> <<LogHeader(command, args)>> \o got \o <<ExitLine(code)>>]

\* vboxManage(cmd, ...args): spawn('VBoxManage', [cmd].concat(args))
vboxManage(cmd, args, code, got) == SpawnSettle("VBoxManage", <<cmd>> \o args, code, got)

\* setDonglePower: proc.on('exit'): `code ? reject(code) : resolve()`
DongleRejects(code) == Truthy(code)

\* ------------------------------------------------------------ history
InSeq(x, q) == \E i \in 1..Len(q) : q[i] = x

Push(h, c) ==
    IF Len(h.cmds) > 0 /\ h.cmds[Len(h.cmds)] = c
    THEN h
    ELSE [h EXCEPT !.cmds = Append(@, c)]

Hist0 ==
    [cmds |-> << >>,        \* the VM commands of this attempt, repeats collapsed
     reported |-> "none",   \* what start()'s running-VM query reported: yes / no / failed
     startQueries |-> 0,    \* running-VM queries made by start()
     intStop |-> "none",    \* start()'s internal stop(): called / returned / threw
     intStopLeft |-> FALSE, \* the VM was still running when it returned
     callerStop |-> "none", \* buildWin's stop(): called / returned / threw
     vmAtStop |-> "none",   \* the VM when the last stop() began: running / stopped
     stopForced |-> FALSE,  \* the last stop() issued the forced power-off
     startCalled |-> FALSE,
     reportedStarted |-> FALSE,   \* buildWin logged "...builder started"
     restored |-> FALSE,    \* the snapshot restore ran to its end: it exited with 0
     restoreRejected |-> FALSE,   \* the snapshot restore command rejected
     polled |-> FALSE,      \* start() reached the boot poll
     pings |-> 0,           \* guest pings sent (counted up to 2)
     lastPing |-> 0,        \* the duration of the last ping
     startvms |-> 0,        \* startvm commands issued
     mapFails |-> 0,        \* mapping attempts that failed
     mapOk |-> FALSE,       \* a mapping attempt verified the drive
     wrote |-> FALSE,       \* runScript() wrote tmp.cmd
     unlinks |-> 0,         \* unlink calls of runScript()
     runs |-> 0,            \* guest executions of the script
     beats |-> 0,           \* heartbeat messages logged by this runScript()
     beatMins |-> 0,        \* the minutes the last heartbeat message reported
     lateBeat |-> FALSE,    \* a heartbeat was logged with no guest execution in flight
     guestCode |-> NoGuestCode,   \* the exit code of the guest execution
     exited |-> FALSE,      \* the guest execution has finished
     unlinkedAfterExit |-> TRUE,
     unhandled |-> FALSE,   \* a promise rejected with no handler
     vmAtEnd |-> FALSE,     \* the VM was running when buildWin finished
     distRead |-> "none",   \* dist was read: "before" or "after" buildWin's stop()
     scriptFailed |-> FALSE,      \* runScript() rejected with a non-zero exit code
     failed |-> FALSE]      \* a step of this build attempt has failed

Cyc0 ==
    [started |-> {},        \* the positions of toBuild whose build was started
     fails |-> {},          \* the positions whose build had a step that failed
     pushed |-> FALSE,      \* pushArtifacts synced the artifacts
     scriptFails |-> {},    \* the positions whose guest script failed
     active |-> 0,          \* the build cycles in progress
     failedAt |-> {}]       \* <<target, time>>: when the target's build last failed

\* the build of target t has failed at the time now
FailedAt(c, t, now) ==
    [c EXCEPT !.failedAt = {p \in @ : p[1] # t} \cup {<<t, now>>}]

\* ------------------------------------------------- WindowsBuilder.start()
\* a driver call settles: its caller resumes with the result
Settle(op, e) ==
    /\ dpc' = "settled"
    /\ dres' = [op |-> op, err |-> e]

\* as StartStopsFirst, had start() stopped the VM whatever the query reported
StartStopsFirst_Always(r) == TRUE

\* `if (isRunning)`: start() stops the VM first when the query reported it running
StartStopsFirst(r) == r

\* as BootPollContinues, had the deadline been compared with <=
BootPollContinues_Le(s, el) == ~s /\ el <= STARTVM_TIMEOUT

\* as BootPollContinues, had the loop gone on pinging after a successful ping
BootPollContinues_NoBreak(s, el) == el < STARTVM_TIMEOUT

\* `while (!success && Date.now() < waitUntil)`
BootPollContinues(s, el) == ~s /\ el < STARTVM_TIMEOUT

\* as MapLoopContinues, had the loop been written `while (attempts <= 5)`
MapLoopContinues_Le(a) == a <= MaxMapAttempts

\* `while (attempts < 5)`
MapLoopContinues(a) == a < MaxMapAttempts

\* `while (isRunning && Date.now() < waitUntil)`
StopPollContinues(r, el) == r /\ el < POWEROFF_TIMEOUT

\* start(): await WindowsBuilder.setDonglePower(false)
StartDongleOff ==
    /\ dpc = "start"
    /\ \E code \in ExitCodes :
        IF dongleCfg /\ DongleRejects(code)
        THEN /\ Settle("start", [kind |-> "dongle", code |-> code, log |-> << >>])
             /\ UNCHANGED dongleOn
        ELSE /\ dpc' = "st_query"
             /\ dongleOn' = IF dongleCfg /\ code = 0 THEN FALSE ELSE dongleOn
             /\ UNCHANGED dres
    /\ UNCHANGED <<cfgVars, pruneVars, lockVars, vmRunning, acpiSent, tmpFile, tmpText, stopCaller, success, isRunning,
                   elapsed, attempts, script, calls, timer, procVars, bwVars, pollVars, hist>>

\* as IsRunningRejects, had isRunning() answered false when the query failed
IsRunningRejects_Swallowed(queryOk) == FALSE

\* isRunning(): execFile('VBoxManage', ['list', 'runningvms'], (err, output)
\* => { err ? reject(err) : resolve(output) }), called once and awaited
IsRunningRejects(queryOk) == ~queryOk

\* isRunning(): return runningList.includes(this.vmName)
IsRunningAnswer(queryOk, running) == queryOk /\ running

\* start(): const isRunning = await this.isRunning(); if (isRunning) await this.stop()
StartQuery ==
    /\ dpc = "st_query"
    /\ \E queryOk \in BOOLEAN :
        LET answer == IsRunningAnswer(queryOk, vmRunning)
            report == IF ~queryOk THEN "failed" ELSE IF vmRunning THEN "yes" ELSE "no"
        IN  IF IsRunningRejects(queryOk)
            THEN /\ Settle("start", Err("execFile"))
                 /\ hist' = [hist EXCEPT !.reported = report, !.startQueries = @ + 1]
                 /\ UNCHANGED <<isRunning, stopCaller>>
            ELSE /\ isRunning' = answer
                 /\ UNCHANGED dres
                 /\ IF StartStopsFirst(answer)
                    THEN /\ dpc' = "stop"
                         /\ stopCaller' = "start"
                         /\ hist' = [Push(hist, "stop") EXCEPT
                                        !.reported = report,
                                        !.startQueries = @ + 1,
                                        !.intStop = "called"]
                    ELSE /\ dpc' = "st_restore"
                         /\ UNCHANGED stopCaller
                         /\ hist' = [hist EXCEPT !.reported = report,
                                                 !.startQueries = @ + 1]
    /\ UNCHANGED <<cfgVars, pruneVars, lockVars, envVars, success, elapsed, attempts, script, calls, timer,
                   procVars, bwVars, pollVars>>

\* as RestoreGoesOn, had start() caught the error of the restore
RestoreGoesOn_Always(code) == TRUE

\* start(): `await this.vboxManage('snapshot', ...)` returns and start() goes
\* on when the command resolved
RestoreGoesOn(code) == SpawnResolves(code)

\* start(): the 2 s sleep, then await vboxManage('snapshot', vmName, 'restorecurrent')
StartRestore ==
    /\ dpc = "st_restore"
    /\ \E code \in ExitCodes :
        /\ hist' = [Push(hist, "restore") EXCEPT
                        !.restored = (code = 0),
                        !.restoreRejected = ~SpawnResolves(code)]
        /\ IF RestoreGoesOn(code)
           THEN dpc' = "st_startvm" /\ UNCHANGED dres
           ELSE Settle("start", vboxManage("snapshot", <<"vmName", "restorecurrent">>,
                                            code, << >>))
    /\ UNCHANGED <<cfgVars, pruneVars, lockVars, envVars, stopCaller, success, isRunning, elapsed, attempts,
                   script, calls, timer, procVars, bwVars, pollVars>>

\* start(): await vboxManage('startvm', vmName); the 5 s sleep;
\* const waitUntil = Date.now() + STARTVM_TIMEOUT; let success = false
StartVm ==
    /\ dpc = "st_startvm"
    /\ \E code \in ExitCodes :
        /\ hist' = [Push(hist, "startvm") EXCEPT
                        !.startvms = @ + 1,
                        !.polled = SpawnResolves(code)]
        /\ vmRunning' = IF code = 0 THEN TRUE ELSE vmRunning
        /\ IF SpawnResolves(code)
           THEN /\ dpc' = "st_poll"
                /\ elapsed' = 0
                /\ success' = FALSE
                /\ UNCHANGED dres
           ELSE /\ Settle("start", vboxManage("startvm", <<"vmName">>, code, << >>))
                /\ UNCHANGED <<elapsed, success>>
    /\ UNCHANGED <<cfgVars, pruneVars, lockVars, dongleOn, acpiSent, tmpFile, tmpText, stopCaller, isRunning, attempts,
                   script, calls, timer, procVars, bwVars, pollVars>>

\* pingVm(): run('ping -n 1 127.0.0.1') resolved -> true, rejected -> false
pingVm(code) == SpawnResolves(code)

\* one iteration of the boot poll: success = await this.pingVm();
\* if (success) break; then the 2 s sleep
StartPoll ==
    /\ dpc = "st_poll"
    /\ BootPollContinues(success, elapsed)
    /\ \E code \in ExitCodes, d \in PingDurations :
        /\ success' = pingVm(code)
        /\ elapsed' = IF pingVm(code) THEN elapsed + d ELSE elapsed + d + PingDelay
        /\ hist' = [Push(hist, IF pingVm(code) THEN "pingok" ELSE "ping") EXCEPT
                        !.lastPing = d,
                        !.pings = IF @ < 2 THEN @ + 1 ELSE @]
    /\ UNCHANGED <<cfgVars, pruneVars, lockVars, envVars, dpc, stopCaller, isRunning, attempts, script, calls, timer,
                   dres, procVars, bwVars, pollVars>>

\* the boot poll is left: if (!success) throw new Error("Failed to start VM: ...");
\* else mapBuildDir() begins: await vboxManage('sharedfolder', 'add', ...)
StartPollExit ==
    /\ dpc = "st_poll"
    /\ ~BootPollContinues(success, elapsed)
    /\ IF ~success
       THEN /\ Settle("start", Err("Failed to start VM"))
            /\ UNCHANGED <<attempts, elapsed, hist>>
       ELSE \E code \in ExitCodes :
            /\ hist' = [Push(hist, "sharedfolder") EXCEPT !.lastPing = 0]
            /\ elapsed' = 0     \* the deadline is not consulted again
            /\ IF SpawnResolves(code)
               THEN dpc' = "st_map" /\ attempts' = 0 /\ UNCHANGED dres
               ELSE /\ Settle("start",
                              vboxManage("sharedfolder",
                                         <<"add", "vmName", "--hostpath", "cwd",
                                           "--name", "builddir", "--transient">>,
                                         code, << >>))
                    /\ UNCHANGED attempts
    /\ UNCHANGED <<cfgVars, pruneVars, lockVars, envVars, stopCaller, success, isRunning, script, calls,
                   timer, procVars, bwVars, pollVars>>

\* as MapVerified, had the attempt returned without running 'z:'
MapVerified_NoVerify(mapCode, verifyCode) == SpawnResolves(mapCode)

\* an attempt of mapBuildDir() reaches its `return` when run('net use z:
\* \\vboxsvr\builddir /y') and run('z:') both resolved
MapVerified(mapCode, verifyCode) == SpawnResolves(mapCode) /\ SpawnResolves(verifyCode)

\* one iteration of mapBuildDir()'s loop: attempts++; 'net use z: /delete /y'
\* (its failure is swallowed); 'net use z: \\vboxsvr\builddir /y'; the 4 s sleep;
\* 'z:'; return - or, when one of the two failed, the catch block's 4 s sleep
MapAttempt ==
    /\ dpc = "st_map"
    /\ MapLoopContinues(attempts)
    /\ \E mapCode \in ExitCodes, verifyCode \in ExitCodes :
        LET ok == MapVerified(mapCode, verifyCode)
        IN  /\ attempts' = attempts + 1
            /\ dpc' = IF ok THEN "st_dongle" ELSE "st_map"
            /\ hist' = [Push(hist, IF ok THEN "mapok" ELSE "map") EXCEPT
                            !.mapFails = IF ok THEN @ ELSE @ + 1,
                            !.mapOk = SpawnResolves(mapCode) /\ SpawnResolves(verifyCode)]
    /\ UNCHANGED <<cfgVars, pruneVars, lockVars, envVars, stopCaller, success, isRunning, elapsed, script, calls,
                   timer, dres, procVars, bwVars, pollVars>>

\* as MapGiveUpError, had mapBuildDir() thrown the error of the boot poll
MapGiveUpError_AsBootPoll == Err("Failed to start VM")

\* new Error("Unable to map network drive")
MapGiveUpError == Err("Unable to map network drive")

\* mapBuildDir(): the loop is left without a return:
\* throw new Error("Unable to map network drive")
MapGiveUp ==
    /\ dpc = "st_map"
    /\ ~MapLoopContinues(attempts)
    /\ Settle("start", MapGiveUpError)
    /\ UNCHANGED <<cfgVars, pruneVars, lockVars, envVars, stopCaller, success, isRunning, elapsed, attempts,
                   script, calls, timer, procVars, bwVars, pollVars, hist>>

\* start(): await WindowsBuilder.setDonglePower(true); start() resolves
StartDongleOn ==
    /\ dpc = "st_dongle"
    /\ \E code \in ExitCodes :
        IF dongleCfg /\ DongleRejects(code)
        THEN /\ Settle("start", [kind |-> "dongle", code |-> code, log |-> << >>])
             /\ UNCHANGED dongleOn
        ELSE /\ Settle("start", NoErr)
             /\ dongleOn' = IF dongleCfg /\ code = 0 THEN TRUE ELSE dongleOn
    /\ UNCHANGED <<cfgVars, pruneVars, lockVars, vmRunning, acpiSent, tmpFile, tmpText, stopCaller, success, isRunning,
                   elapsed, attempts, script, calls, timer, procVars, bwVars, pollVars, hist>>

\* -------------------------------------------------- WindowsBuilder.stop()
\* stop() returns to whoever awaits it: start() goes on to its 2 s sleep and
\* the snapshot restore, buildWin resumes after its finally block's await
StopReturns(h, running) ==
    IF stopCaller = "start"
    THEN /\ dpc' = "st_restore"
         /\ UNCHANGED dres
         /\ hist' = [h EXCEPT !.intStop = "returned", !.intStopLeft = running]
    ELSE /\ Settle("stop", NoErr)
         /\ hist' = [h EXCEPT !.callerStop = "returned"]

\* stop() rejects: inside start() the rejection is start()'s
StopThrows(h, e) ==
    IF stopCaller = "start"
    THEN /\ Settle("start", e)
         /\ hist' = [h EXCEPT !.intStop = "threw"]
    ELSE /\ Settle("stop", e)
         /\ hist' = [h EXCEPT !.callerStop = "threw"]

\* stop(): await WindowsBuilder.setDonglePower(false);
\* this.vboxManage('controlvm', vmName, 'acpipowerbutton') - not awaited;
\* const waitUntil = Date.now() + POWEROFF_TIMEOUT; let isRunning = true
StopBegin ==
    /\ dpc = "stop"
    /\ \E code \in ExitCodes, acpiCode \in ExitCodes :
        IF dongleCfg /\ DongleRejects(code)
        THEN /\ StopThrows(hist, [kind |-> "dongle", code |-> code, log |-> << >>])
             /\ UNCHANGED <<dongleOn, acpiSent, isRunning, elapsed>>
        ELSE /\ dongleOn' = IF dongleCfg /\ code = 0 THEN FALSE ELSE dongleOn
             /\ acpiSent' = (acpiCode = 0)
             /\ isRunning' = TRUE
             /\ elapsed' = 0
             /\ dpc' = "sp_poll"
             /\ UNCHANGED dres
             /\ hist' = [Push(hist, "acpi") EXCEPT
                            !.unhandled = @ \/ ~SpawnResolves(acpiCode),
                            !.vmAtStop = IF vmRunning THEN "running" ELSE "stopped",
                            !.stopForced = FALSE]
    /\ UNCHANGED <<cfgVars, pruneVars, lockVars, vmRunning, tmpFile, tmpText, stopCaller, success, attempts, script, calls,
                   timer, procVars, bwVars, pollVars>>

\* one iteration of stop()'s loop: the 1 s sleep, during which a guest that got
\* the power-button event may shut down; isRunning = await this.isRunning()
StopPoll ==
    /\ dpc = "sp_poll"
    /\ StopPollContinues(isRunning, elapsed)
    /\ \E down \in BOOLEAN, queryOk \in BOOLEAN :
        LET running == vmRunning /\ ~(down /\ acpiSent)
        IN  /\ vmRunning' = running
            /\ elapsed' = elapsed + StopPollDelay
            /\ IF queryOk
               THEN isRunning' = IsRunningAnswer(queryOk, running)
                    /\ UNCHANGED <<dpc, dres, hist>>
               ELSE StopThrows(hist, Err("execFile")) /\ UNCHANGED isRunning
    /\ UNCHANGED <<cfgVars, pruneVars, lockVars, dongleOn, acpiSent, tmpFile, tmpText, stopCaller, success, attempts,
                   script, calls, timer, procVars, bwVars, pollVars>>

\* as ForcesPowerOff, had stop() pulled the plug whatever the last query said
ForcesPowerOff_Always(r) == TRUE

\* stop(): `if (isRunning)` after the loop: the forced power-off is issued
ForcesPowerOff(r) == r

\* stop()'s loop is left: if (isRunning) { try { await vboxManage('controlvm',
\* vmName, 'poweroff') } catch (e) {} } else "VM shut down cleanly"
StopPollExit ==
    /\ dpc = "sp_poll"
    /\ ~StopPollContinues(isRunning, elapsed)
    /\ IF ForcesPowerOff(isRunning)
       THEN \E code \in ExitCodes :
            /\ vmRunning' = IF code = 0 THEN FALSE ELSE vmRunning
            /\ StopReturns([Push(hist, "poweroff") EXCEPT !.stopForced = TRUE],
                           vmRunning')
       ELSE /\ UNCHANGED vmRunning
            /\ StopReturns(hist, vmRunning)
    /\ acpiSent' = FALSE    \* the guest reacts to the event while stop() polls, or never
    /\ UNCHANGED <<cfgVars, pruneVars, lockVars, dongleOn, tmpFile, tmpText, stopCaller, success, isRunning,
                   elapsed, attempts, script, calls, timer, procVars, bwVars, pollVars>>

\* ------------------------------------------ WindowsBuilder.appendScript()
\* x.includes(' ')
Includes(x, a) == \E i \in 1..Len(x) : x[i] = a

\* the callback handed to args.filter: x.includes(' ') ? '"' + x + '"' : x
FilterCallback(x) == IF Includes(x, " ") THEN <<"\"">> \o x \o <<"\"">> ELSE x

\* Array.prototype.filter keeps the elements whose callback value is truthy;
\* a string is truthy when it is not empty
JsFilter(args) == SelectSeq(args, LAMBDA x : FilterCallback(x) # << >>)

\* Array.prototype.join(' ')
RECURSIVE Join(_)
Join(xs) ==
    IF Len(xs) = 0 THEN << >>
    ELSE IF Len(xs) = 1 THEN xs[1]
    ELSE xs[1] \o <<" ">> \o Join(Tail(xs))

\* as appendScript, had the guard been written before the command line
appendScript_GuardFirst(s, args) ==
    s \o <<GUARD, CRLF>> \o Join(JsFilter(args)) \o <<CRLF>>

\* this.script += args.filter(...).join(' ') + "\r\n";
\* this.script += 'if %errorlevel% neq 0 exit /b %errorlevel%\r\n'
appendScript(s, args) == s \o Join(JsFilter(args)) \o <<CRLF>> \o <<GUARD, CRLF>>

\* appendScript called once for each argument list of cs, in order
RECURSIVE AppendAll(_, _)
AppendAll(s, cs) ==
    IF Len(cs) = 0 THEN s
    ELSE AppendAll(appendScript(s, cs[1]), Tail(cs))

\* the lines of a text, a line being what a CRLF ends
RECURSIVE LinesOf(_, _)
LinesOf(t, line) ==
    IF Len(t) = 0 THEN (IF Len(line) = 0 THEN << >> ELSE <<line>>)
    ELSE IF t[1] = CRLF THEN <<line>> \o LinesOf(Tail(t), << >>)
    ELSE LinesOf(Tail(t), Append(line, t[1]))

\* this.fetchArgs.map(a => a.replace(/\//g, "\\")) of either builder
FetchArgs(m) ==
    IF m = "nightly"
    THEN <<<<"develop">>, <<"-d">>, <<"element.io\\nightly">>>>
    ELSE <<<<"-d">>, <<"element.io\\release">>>>

\* the appendScript calls of buildWin (buildDirName, the repository URL, the
\* target id and the fetch arguments are one atom each)
BuildWinCalls(m) ==
    << <<<<"rd">>, <<"ed-dir">>, <<"/s">>, <<"/q">>>> >> \o
    (IF m = "nightly"
     THEN << <<<<"git">>, <<"clone">>, <<"repo">>, <<"ed-dir">>>> >>
     ELSE << <<<<"git">>, <<"clone">>, <<"repo">>, <<"ed-dir">>, <<"-b">>, <<"branch">>>> >>) \o
    << <<<<"cd">>, <<"ed-dir">>>>,
       <<<<"copy">>, <<"z:\\electron-builder.json">>, <<"electron-builder.json">>>> >> \o
    (IF m = "nightly"
     THEN << >>
     ELSE << <<<<"xcopy">>, <<"z:\\gnupg">>, <<"gnupg">>, <<"/S">>, <<"/I">>, <<"/Y">>>> >>) \o
    << <<<<"call">>, <<"yarn">>, <<"install">>>>,
       <<<<"call">>, <<"yarn">>, <<"run">>, <<"hak">>, <<"check">>, <<"--target">>, <<"id">>>>,
       <<<<"call">>, <<"yarn">>, <<"run">>, <<"build:native">>, <<"--target">>, <<"id">>>>,
       <<<<"call">>, <<"yarn">>, <<"run">>, <<"fetch">>>> \o FetchArgs(m),
       <<<<"call">>, <<"yarn">>, <<"build">>, <<"--arch">>, <<"--config">>,
         <<"electron-builder.json">>>>,
       <<<<"xcopy", " ", "dist", " ", "z:\\dist", " ", "/S", " ", "/I", " ", "/Y">>>>,
       <<<<"cd">>, <<"..">>>>,
       <<<<"rd">>, <<"ed-dir">>, <<"/s">>, <<"/q">>>> >>

\* ----------------------------------------------- WindowsBuilder.runScript()
Chunks == {"a", "b"}
\* the texts a guest execution can write
Outputs == UNION {[1..n -> Chunks] : n \in 0..MaxChunks}

\* getBuildEnv(): the develop build adds BUILDKITE_API_KEY, the release build
\* GNUPGHOME, as -E arguments of the guest-execute call
getBuildEnv(apiKey) ==
    IF mode = "nightly"
    THEN <<"-E", "BUILDKITE_API_KEY=" \o apiKey>>
    ELSE <<"-E", "GNUPGHOME=" \o "gnupg">>

\* the WindowsBuilder object: this.script, this.target.vcVarsArch, this.env
\* and the secrets this.password, this.keyContainer,
\* process.env.BUILDKITE_API_KEY
ThisDriver ==
    [script |-> script, vcVarsArch |-> "amd64", password |-> secrets.password,
     keyContainer |-> secrets.keyContainer, apiKey |-> secrets.apiKey,
     env |-> getBuildEnv(secrets.apiKey)]

\* as fileContents, had the script set the signing-key container itself
fileContents_SetsKey(d) ==
    <<"echo on", CRLF, "call \"VCVARSALL\" ", d.vcVarsArch, CRLF,
      "set SIGNING_KEY_CONTAINER=", d.keyContainer, CRLF,
      "cd /D %userprofile%", CRLF>> \o d.script

\* runScript(): const fileContents = "echo on\r\n" + "call \"" + VCVARSALL +
\* '" ' + vcvarsArch + '\r\n' + "cd /D %userprofile%\r\n" + this.script
fileContents(d) ==
    <<"echo on", CRLF, "call \"VCVARSALL\" ", d.vcVarsArch, CRLF,
      "cd /D %userprofile%", CRLF>> \o d.script

\* run(runStr): the arguments of `VBoxManage guestcontrol`
guestCtlArgs(d, runStr) ==
    <<"vmName", "--username", "username", "--password", d.password, "run",
      "-E", "BUILDKITE_API_KEY=" \o d.apiKey,
      "-E", "SIGNING_KEY_CONTAINER=" \o d.keyContainer>>
    \o d.env
    \o <<"--exe", "cmd.exe", "--", "cmd", "/C", runStr>>

\* run(runStr): return this.vboxManage('guestcontrol', ...guestCtlArgs)
run(d, runStr, code, got) == vboxManage("guestcontrol", guestCtlArgs(d, runStr), code, got)

\* runScript(): await fsProm.writeFile(tmpCmdFile, fileContents); the heartbeat
\* interval is set; this.run('z:\\tmp.cmd') spawns VBoxManage guestcontrol
RunWrite ==
    /\ dpc = "runScript"
    /\ \E writeOk \in BOOLEAN, o \in Outputs :
        IF ~writeOk
        THEN /\ Settle("runScript", Err("writeFile"))
             /\ UNCHANGED <<tmpFile, tmpText, timer, out, delivered, hist>>
        ELSE /\ tmpFile' = TRUE
             /\ tmpText' = fileContents(ThisDriver)
             /\ timer' = TRUE
             /\ out' = o
             /\ delivered' = 0
             /\ dpc' = "rs_exec"
             /\ UNCHANGED dres
             /\ hist' = [Push(hist, "run") EXCEPT !.wrote = TRUE, !.runs = @ + 1]
    /\ UNCHANGED <<cfgVars, pruneVars, lockVars, vmRunning, dongleOn, acpiSent, stopCaller, success, isRunning,
                   elapsed, attempts, script, calls, bwVars, pollVars>>

\* the period of runScript()'s setInterval
HeartbeatInterval == 60 * 1000

\* Math.round(n / d) for n >= 0, d > 0
Round(n, d) == (2 * n + d) \div (2 * d)

\* the interval's callback runs, one period after the last time or after
\* runScript() set it: runningForMins = Math.round((Date.now() - startTime) /
\* (60 * 1000)) is logged.  A timer callback is a task of its own: it does
\* not run between the 'exit' event settling this.run() and the finally block
Heartbeat ==
    /\ timer
    /\ dpc # "rs_finally"
    /\ hist.beats < MaxBeats
    /\ hist' = [hist EXCEPT
                    !.beats = @ + 1,
                    !.beatMins = Round((hist.beats + 1) * HeartbeatInterval, 60 * 1000),
                    !.lateBeat = @ \/ dpc # "rs_exec"]
    /\ UNCHANGED <<cfgVars, pruneVars, lockVars, envVars, dpc, stopCaller, success, isRunning, elapsed, attempts,
                   script, calls, timer, dres, procVars, bwVars, pollVars>>

\* spawn(): a 'data' event of proc.stdout / proc.stderr: log += chunk.toString()
RunData ==
    /\ dpc = "rs_exec"
    /\ delivered < Len(out)
    /\ delivered' = delivered + 1
    /\ UNCHANGED <<cfgVars, pruneVars, lockVars, envVars, dpc, stopCaller, success, isRunning, elapsed,
                   attempts, script, calls, timer, dres, out, bwVars, pollVars, hist>>

\* spawn(): the 'exit' event of the child process, which Node emits when the
\* process has ended, the stdio streams possibly still holding chunks that
\* were not delivered yet: the promise settles with the log as it is now
RunExit ==
    /\ dpc = "rs_exec"
    /\ \E code \in ExitCodes :
        /\ dres' = [op |-> "run", err |-> run(ThisDriver, "z:\\tmp.cmd", code,
                                             SubSeq(out, 1, delivered))]
        /\ hist' = [hist EXCEPT !.guestCode = code, !.exited = TRUE]
    /\ dpc' = "rs_finally"
    /\ UNCHANGED <<cfgVars, pruneVars, lockVars, envVars, stopCaller, success, isRunning, elapsed, attempts,
                   script, calls, timer, procVars, bwVars, pollVars>>

\* as RunFinally, had the cleanup followed the await instead of standing in a
\* finally block: a rejection of this.run() skips it
RunFinally_NoFinally ==
    /\ dpc = "rs_finally"
    /\ timer' = (dres.err # NoErr /\ timer)
    /\ tmpFile' = (dres.err # NoErr /\ tmpFile)
    /\ tmpText' = IF dres.err # NoErr THEN tmpText ELSE << >>
    /\ hist' = [hist EXCEPT !.unlinks = IF dres.err = NoErr THEN @ + 1 ELSE @,
                            !.unlinkedAfterExit = @ /\ hist.exited]
    /\ Settle("runScript", dres.err)
    /\ UNCHANGED <<cfgVars, pruneVars, lockVars, vmRunning, dongleOn, acpiSent, stopCaller, success, isRunning,
                   elapsed, attempts, script, calls, procVars, bwVars, pollVars>>

\* as RunFinally, had runScript() run the script a second time after a failed
\* execution
RunFinally_Retries ==
    /\ dpc = "rs_finally"
    /\ timer' = FALSE
    /\ tmpFile' = FALSE
    /\ tmpText' = << >>
    /\ hist' = [hist EXCEPT !.unlinks = @ + 1,
                            !.unlinkedAfterExit = @ /\ hist.exited]
    /\ IF dres.err # NoErr /\ hist.runs < 2
       THEN dpc' = "runScript" /\ dres' = NoRes
       ELSE Settle("runScript", dres.err)
    /\ UNCHANGED <<cfgVars, pruneVars, lockVars, vmRunning, dongleOn, acpiSent, stopCaller, success, isRunning,
                   elapsed, attempts, script, calls, procVars, bwVars, pollVars>>

\* as RunFinally, had the finally block not cleared the interval
RunFinally_KeepsTimer ==
    /\ dpc = "rs_finally"
    /\ tmpFile' = FALSE
    /\ tmpText' = << >>
    /\ hist' = [hist EXCEPT !.unlinks = @ + 1,
                            !.unlinkedAfterExit = @ /\ hist.exited]
    /\ Settle("runScript", dres.err)
    /\ UNCHANGED <<cfgVars, pruneVars, lockVars, vmRunning, dongleOn, acpiSent, stopCaller, success, isRunning,
                   elapsed, attempts, script, calls, timer, procVars, bwVars, pollVars>>

\* runScript(): finally { clearInterval(timer); await fsProm.unlink(tmpCmdFile) },
\* then the result of this.run() is returned or rethrown
RunFinally ==
    /\ dpc = "rs_finally"
    /\ timer' = FALSE
    /\ tmpFile' = FALSE
    /\ tmpText' = << >>
    /\ hist' = [hist EXCEPT !.unlinks = @ + 1,
                            !.unlinkedAfterExit = @ /\ hist.exited]
    /\ Settle("runScript", dres.err)
    /\ UNCHANGED <<cfgVars, pruneVars, lockVars, vmRunning, dongleOn, acpiSent, stopCaller, success, isRunning,
                   elapsed, attempts, script, calls, procVars, bwVars, pollVars>>

\* ------------------------------------------------------------- buildWin()
\* as BuildWinCatch, had buildWin of the release builder the catch block too
BuildWinCatch_Both(m, e) == NoErr

\* buildWin of the nightly builder has `catch (e) { if (e instanceof
\* LoggableError) logger.file(e.log) }` between try and finally; buildWin of
\* the release builder has no catch block: the error stays pending
BuildWinCatch(m, e) == IF m = "nightly" THEN NoErr ELSE e

\* the driver object of a new attempt: new WindowsBuilder(...)
NewDriver ==
    /\ script' = << >>
    /\ calls' = << >>
    /\ success' = FALSE
    /\ isRunning' = FALSE
    /\ elapsed' = 0
    /\ attempts' = 0
    /\ timer' = FALSE
    /\ stopCaller' = "buildWin"
    /\ out' = << >>
    /\ delivered' = 0
    /\ dres' = NoRes

\* buildWin: cloneRepo, writeElectronBuilderConfigFile (and copyGnupgDir in the
\* release builder), makeWindowsBuilder, then builder.start() is called
BwPrepare ==
    /\ bpc = "bw_prepare"
    /\ \E ok \in BOOLEAN :
        IF ok
        THEN /\ bpc' = "bw_start"
             /\ dpc' = "start"
             /\ NewDriver
             /\ hist' = [Hist0 EXCEPT !.startCalled = TRUE]
             /\ UNCHANGED berr
        ELSE /\ bpc' = "threw"
             /\ berr' = Err("prepare")
             /\ hist' = [Hist0 EXCEPT !.failed = TRUE]
             /\ UNCHANGED <<dpc, stopCaller, success, isRunning, elapsed, attempts, script, calls,
                            timer, dres, procVars>>
    /\ UNCHANGED <<cfgVars, pruneVars, lockVars, envVars, pollVars>>

\* buildWin: `await builder.start()` settles.  It stands before the try block:
\* a rejection leaves buildWin at once.  Otherwise the script is assembled and
\* builder.runScript() is called
BwStarted ==
    /\ bpc = "bw_start"
    /\ dpc = "settled"
    /\ dres.op = "start"
    /\ IF dres.err # NoErr
       THEN /\ bpc' = "threw"
            /\ berr' = dres.err
            /\ dpc' = "idle"
            /\ hist' = [hist EXCEPT !.failed = TRUE]
            /\ UNCHANGED <<script, calls, success, attempts>>
       ELSE /\ bpc' = "bw_run"
            /\ script' = AppendAll(script, BuildWinCalls(mode))
            /\ calls' = calls \o BuildWinCalls(mode)
            /\ dpc' = "runScript"
            /\ success' = FALSE /\ attempts' = 0     \* start()'s locals are gone
            /\ hist' = [hist EXCEPT !.pings = 0, !.mapFails = 0,
                                    !.reportedStarted = TRUE]
            /\ UNCHANGED berr
    /\ dres' = NoRes
    /\ UNCHANGED <<cfgVars, pruneVars, lockVars, envVars, stopCaller, isRunning, elapsed,
                   timer, procVars, pollVars>>

\* buildWin: the finally block: await builder.stop()
CallStop ==
    /\ dpc' = "stop"
    /\ stopCaller' = "buildWin"

\* buildWin: `await builder.runScript()` settles: the artifacts are copied
\* next, or the error goes to the catch and finally blocks
BwRan ==
    /\ bpc = "bw_run"
    /\ dpc = "settled"
    /\ dres.op = "runScript"
    /\ IF dres.err = NoErr
       THEN /\ bpc' = "bw_copy"
            /\ dpc' = "idle"
            /\ hist' = [hist EXCEPT !.guestCode = NoGuestCode, !.beats = 0,
                                    !.beatMins = 0]
            /\ UNCHANGED <<berr, stopCaller>>
       ELSE /\ bpc' = "bw_stop"
            /\ berr' = BuildWinCatch(mode, dres.err)
            /\ CallStop
            /\ hist' = [Push(hist, "stop") EXCEPT !.callerStop = "called",
                                                  !.guestCode = NoGuestCode,
                                                  !.beats = 0, !.beatMins = 0,
                                                  !.scriptFailed =
                                                      (dres.err.kind = "LoggableError"
                                                       /\ dres.err.code > 0),
                                                  !.failed = TRUE]
    /\ dres' = NoRes
    /\ out' = << >> /\ delivered' = 0     \* the child process is gone
    /\ UNCHANGED <<cfgVars, pruneVars, lockVars, envVars, success, isRunning, elapsed, attempts, script, calls,
                   timer, pollVars>>

\* buildWin: mkdir, copyMatchingFile(s) from repoDir/dist (and pruneBuilds in
\* the nightly builder), inside the try block; then the finally block
BwCopy ==
    /\ bpc = "bw_copy"
    /\ \E ok \in BOOLEAN :
        /\ berr' = IF ok THEN NoErr ELSE BuildWinCatch(mode, Err("copy"))
        /\ hist' = [Push(hist, "stop") EXCEPT !.callerStop = "called",
                                              !.distRead =
                                                  IF hist.callerStop = "returned"
                                                  THEN "after" ELSE "before",
                                              !.failed = ~ok]
    /\ bpc' = "bw_stop"
    /\ CallStop
    /\ UNCHANGED <<cfgVars, pruneVars, lockVars, envVars, success, isRunning, elapsed, attempts, script, calls,
                   timer, dres, procVars, pollVars>>

\* buildWin: `await builder.stop()` of the finally block settles: a rejection
\* of stop() replaces the pending error, a pending error is rethrown, and
\* otherwise rm(repoDir) follows
BwStopped ==
    /\ bpc = "bw_stop"
    /\ dpc = "settled"
    /\ dres.op = "stop"
    /\ dpc' = "idle"
    /\ dres' = NoRes
    /\ IF dres.err # NoErr
       THEN bpc' = "threw" /\ berr' = dres.err
       ELSE IF berr # NoErr
       THEN bpc' = "threw" /\ UNCHANGED berr
       ELSE bpc' = "bw_rm" /\ UNCHANGED berr
    /\ hist' = [hist EXCEPT !.failed = @ \/ dres.err # NoErr]
    /\ UNCHANGED <<cfgVars, pruneVars, lockVars, envVars, stopCaller, success, isRunning, elapsed, attempts,
                   script, calls, timer, procVars, pollVars>>

\* buildWin: await rm(repoDir); buildWin resolves
BwRm ==
    /\ bpc = "bw_rm"
    /\ \E ok \in BOOLEAN :
        IF ok
        THEN bpc' = "done" /\ UNCHANGED <<berr, hist>>
        ELSE bpc' = "threw" /\ berr' = Err("rm") /\ hist' = [hist EXCEPT !.failed = TRUE]
    /\ UNCHANGED <<cfgVars, pruneVars, lockVars, envVars, dpc, stopCaller, success, isRunning, elapsed,
                   attempts, script, calls, timer, dres, procVars, pollVars>>

\* ------------------------------------------------------------------ Spec
\* one Windows build attempt of either builder: the cycle has reached the build
\* of its Windows target, the VM being in whatever state it was left in
InBuild ==
    /\ building = TRUE
    /\ force = FALSE
    /\ toBuild = <<1>>
    /\ cur = 1
    /\ buildNumber = 1
    /\ lastBuildTimes = <<[time |-> 0, number |-> 0]>>
    /\ lastFailTimes = <<0>>
    /\ lastBuilt = <<[time |-> 0, number |-> 0]>>
    /\ clock = 0
    /\ cyc = [Cyc0 EXCEPT !.started = {1}, !.active = 1]

\* pruneBuilds is not running
PruneIdle ==
    /\ pubDir = {}
    /\ ppc = [at |-> "idle", i |-> 0]
    /\ toDelete = << >>

\* no lock file, and no process of index.ts is being followed
NoPid == 0
Procs == 1..MaxProcs
MainIdle ==
    /\ lockFile = NoPid
    /\ mpc = [p \in Procs |-> "none"]

DriverIdle ==
    /\ dpc = "idle"
    /\ stopCaller = "buildWin"
    /\ success = FALSE
    /\ isRunning = FALSE
    /\ elapsed = 0
    /\ attempts = 0
    /\ script = << >>
    /\ calls = << >>
    /\ timer = FALSE
    /\ dres = NoRes
    /\ out = << >>
    /\ delivered = 0

Init ==
    /\ mode \in {"nightly", "release"}
    /\ dongleCfg \in BOOLEAN
    /\ targets = <<"win32">>
    /\ vmRunning \in BOOLEAN
    /\ dongleOn = FALSE
    /\ acpiSent = FALSE
    /\ tmpFile = FALSE
    /\ tmpText = << >>
    /\ PruneIdle
    /\ MainIdle
    /\ secrets = Secrets0
    /\ DriverIdle
    /\ bpc = "bw_prepare"
    /\ berr = NoErr
    /\ InBuild
    /\ hist = Hist0

Next == BwPrepare \/ BwStarted \/ BwRan \/ BwCopy \/ BwStopped \/ BwRm
    \/ StartDongleOff \/ StartQuery \/ StartRestore \/ StartVm \/ StartPoll
    \/ StartPollExit \/ MapAttempt \/ MapGiveUp \/ StartDongleOn
    \/ StopBegin \/ StopPoll \/ StopPollExit
    \/ RunWrite \/ Heartbeat \/ RunData \/ RunExit \/ RunFinally

Spec == Init /\ [][Next]_vars

\* ------------------------------------------------------------- SpecPoll
\* the hour of setHours(8), and the hours of the day that setDate(+1) adds
BuildHour == 8
HoursPerDay == 24
\* the clock advances in steps of this many hours, up to MaxDays days
TickHours == BuildHour
MaxDays == 2
\* the configurations of options.targets: a target is built in the VM
\* ("win32") or by a local runner ("linux")
TargetConfigs == {<<"win32", "linux">>, <<"linux", "win32">>}

\* time passes by dt before Date.now() is read
Ticks == {dt \in {0, TickHours} : clock + dt <= MaxDays * HoursPerDay}

\* getNextBuildTime(d): next = d with the time of day set to 8:00:00.000;
\* if (next < d) next.setDate(next.getDate() + 1)
getNextBuildTime(d) ==
    LET next == (d \div HoursPerDay) * HoursPerDay + BuildHour
    IN  IF next < d THEN next + HoursPerDay ELSE next

\* the calendar of Date: the days of the months of a year that is not a leap
\* year; the clock starts at 0:00 on the first of January
MonthLengths == <<31, 28, 31, 30, 31, 30, 31, 31, 30, 31, 30, 31>>

\* the days since the clock started
DayOf(t) == t \div HoursPerDay

\* the day of the month of the d-th day (from 0) counted from the first of month m
RECURSIVE DayInMonth(_, _)
DayInMonth(d, m) ==
    IF d < MonthLengths[m] THEN d + 1
    ELSE DayInMonth(d - MonthLengths[m], (m % 12) + 1)

\* Date.prototype.getDate()
getDate(t) == DayInMonth(DayOf(t), 1)

\* getBuildVersion(lastBuild) at the time `now`: the build number
getBuildNumber(lastBuild, now) ==
    IF getDate(lastBuild.time) = getDate(now) THEN lastBuild.number + 1 ELSE 1

\* as Max, had poll() looked at the time of the last build only
Max_First(a, b) == a

\* Math.max
Max(a, b) == IF a > b THEN a ELSE b

\* as DueTargets, had poll() not looked at the force flag
DueTargets_ScheduleOnly(now) ==
    SelectSeq([i \in 1..Len(targets) |-> i],
              LAMBDA i : getNextBuildTime(Max(lastBuildTimes[i].time,
                                              lastFailTimes[i])) < now)

\* poll(): the targets whose next build is due, or all of them when forced
DueTargets(now) ==
    SelectSeq([i \in 1..Len(targets) |-> i],
              LAMBDA i : force \/ getNextBuildTime(Max(lastBuildTimes[i].time,
                                                      lastFailTimes[i])) < now)

\* the loop body of poll() / startBuild() begins for position i of toBuild:
\* getBuildVersion(), then build(target) -> buildWin or buildLocal
BeginTarget(tb, i, now) ==
    /\ cur' = i
    /\ buildNumber' = IF mode = "nightly"
                      THEN getBuildNumber(lastBuildTimes[tb[i]], now)
                      ELSE buildNumber
    /\ bpc' = IF targets[tb[i]] = "win32" THEN "bw_prepare" ELSE "local"

\* startBuild() up to its loop.  Nightly: this.building = false;
\* setDonglePower(false); loadSigningKeyContainer(); lastBuildTimes from
\* getLastBuild(), lastFailTimes 0; setInterval(poll); await this.poll().
\* Release: the gnupg directory is checked; toBuild = this.options.targets
StartBuild ==
    /\ bpc = "boot"
    /\ \E ok \in BOOLEAN :
        IF ~ok
        THEN /\ bpc' = "exit"
             /\ UNCHANGED <<building, toBuild, cur, buildNumber, lastBuildTimes,
                            lastFailTimes, cyc>>
        ELSE IF mode = "nightly"
        THEN /\ bpc' = "idle"
             /\ building' = FALSE
             /\ lastBuildTimes' = lastBuilt
             /\ lastFailTimes' = [i \in 1..Len(targets) |-> 0]
             /\ UNCHANGED <<toBuild, cur, buildNumber, cyc>>
        ELSE /\ toBuild' = [i \in 1..Len(targets) |-> i]
             /\ building' = TRUE
             /\ cyc' = [Cyc0 EXCEPT !.started = {1}, !.active = 1]
             /\ BeginTarget(toBuild', 1, clock)
             /\ UNCHANGED <<lastBuildTimes, lastFailTimes>>
    /\ UNCHANGED <<cfgVars, pruneVars, lockVars, envVars, dpc, stopCaller, success, isRunning, elapsed,
                   attempts, script, calls, timer, dres, procVars, berr, force, lastBuilt,
                   clock, hist>>

\* as PollReturnsAtOnce, had poll() not looked at the building flag
PollReturnsAtOnce_Never(b) == FALSE

\* poll(): `if (this.building) return`
PollReturnsAtOnce(b) == b

\* poll(), called by startBuild() and by the 30 s interval timer, when no
\* cycle is building: toBuild is computed, the force flag cleared, and
\* the first target's build begins
Poll ==
    /\ mode = "nightly"
    /\ bpc \notin {"boot", "exit"}      \* the interval timer is set
    /\ ~PollReturnsAtOnce(building)
    /\ \E dt \in Ticks :
        LET now == clock + dt
            tb == DueTargets(now)
        IN  /\ clock' = now
            /\ force' = FALSE
            /\ toBuild' = tb
            /\ IF Len(tb) = 0
               THEN /\ cyc' = [Cyc0 EXCEPT !.active = cyc.active,
                                            !.failedAt = cyc.failedAt]
                    /\ UNCHANGED <<building, cur, buildNumber, bpc>>
               ELSE /\ building' = TRUE
                    /\ cyc' = [Cyc0 EXCEPT !.started = {1}, !.active = cyc.active + 1,
                                            !.failedAt = cyc.failedAt]
                    /\ BeginTarget(tb, 1, now)
    /\ UNCHANGED <<cfgVars, pruneVars, lockVars, envVars, dpc, stopCaller, success, isRunning, elapsed,
                   attempts, script, calls, timer, dres, procVars, berr, lastBuildTimes,
                   lastFailTimes, lastBuilt, hist>>

\* poll(), called by the interval timer while a cycle is building:
\* `if (this.building) return`
PollBusy ==
    /\ mode = "nightly"
    /\ bpc \notin {"boot", "exit"}
    /\ PollReturnsAtOnce(building)
    /\ UNCHANGED vars

\* buildLocal(): clone, configure, run the build with the local or the docker
\* runner, copy the artifacts, remove the build directory
BuildLocal ==
    /\ bpc = "local"
    /\ \E ok \in BOOLEAN :
        /\ bpc' = IF ok THEN "done" ELSE "threw"
        /\ berr' = IF ok THEN NoErr ELSE Err("local")
        /\ hist' = [Hist0 EXCEPT !.failed = ~ok]
    /\ UNCHANGED <<cfgVars, pruneVars, lockVars, envVars, dpc, stopCaller, success, isRunning, elapsed,
                   attempts, script, calls, timer, dres, procVars, pollVars>>

\* as EndCycle, had the flag been cleared after the try statement instead of
\* in a finally block: the `return` of the catch block skips it
EndCycle_FlagNotCleared ==
    /\ building' = (bpc = "threw" /\ building)
    /\ bpc' = IF mode = "nightly" THEN "idle" ELSE "exit"
    /\ berr' = NoErr
    /\ toBuild' = << >>
    /\ cur' = 0
    /\ buildNumber' = 0

\* the cycle ends: `finally { this.building = false }`
EndCycle ==
    /\ building' = FALSE
    /\ bpc' = IF mode = "nightly" THEN "idle" ELSE "exit"
    /\ berr' = NoErr
    /\ toBuild' = << >>     \* the locals of poll() are gone
    /\ cur' = 0
    /\ buildNumber' = 0

\* build(target) resolved.  Nightly: lastBuildTimes[target] = {Date.now(),
\* buildNumber}; await putLastBuild() writes the file.  Then the
\* next target's build begins or, after the last, pushArtifacts is called
BuildResolved ==
    /\ bpc = "done"
    /\ \E dt \in Ticks :
        LET now == clock + dt
            t == toBuild[cur]
            rec == [time |-> now, number |-> buildNumber]
            c == IF hist.failed THEN FailedAt(cyc, t, now) ELSE cyc
        IN  /\ clock' = now
            /\ IF mode = "nightly"
               THEN /\ lastBuildTimes' = [lastBuildTimes EXCEPT ![t] = rec]
                    /\ lastBuilt' = [lastBuilt EXCEPT ![t] = rec]
               ELSE UNCHANGED <<lastBuildTimes, lastBuilt>>
            /\ IF cur < Len(toBuild)
               THEN /\ cyc' = [c EXCEPT !.started = @ \cup {cur + 1},
                                       !.fails = IF hist.failed THEN @ \cup {cur} ELSE @,
                                       !.scriptFails = IF hist.scriptFailed
                                                       THEN @ \cup {cur} ELSE @]
                    /\ BeginTarget(toBuild, cur + 1, now)
               ELSE /\ bpc' = "push"
                    /\ cyc' = [c EXCEPT !.fails = IF hist.failed THEN @ \cup {cur} ELSE @,
                                       !.scriptFails = IF hist.scriptFailed
                                                       THEN @ \cup {cur} ELSE @]
                    /\ UNCHANGED <<cur, buildNumber>>
    /\ hist' = Hist0
    /\ script' = << >>
    /\ calls' = << >>
    /\ UNCHANGED <<cfgVars, pruneVars, lockVars, envVars, dpc, stopCaller, success, isRunning, elapsed,
                   attempts, timer, dres, procVars, berr, building, force,
                   toBuild, lastFailTimes>>

\* build(target) rejected: the catch block of the loop body.  Nightly:
\* lastFailTimes[target] = Date.now().  `return` leaves the cycle
BuildRejected ==
    /\ bpc = "threw"
    /\ \E dt \in Ticks :
        /\ clock' = clock + dt
        /\ lastFailTimes' = IF mode = "nightly"
                            THEN [lastFailTimes EXCEPT ![toBuild[cur]] = clock + dt]
                            ELSE lastFailTimes
        /\ cyc' = [FailedAt(cyc, toBuild[cur], clock + dt) EXCEPT
                      !.fails = @ \cup {cur},
                      !.scriptFails = IF hist.scriptFailed THEN @ \cup {cur} ELSE @,
                      !.active = @ - 1]
    /\ EndCycle
    /\ hist' = Hist0
    /\ script' = << >>
    /\ calls' = << >>
    /\ UNCHANGED <<cfgVars, pruneVars, lockVars, envVars, dpc, stopCaller, success, isRunning, elapsed,
                   attempts, timer, dres, procVars, force, lastBuildTimes, lastBuilt>>

\* await this.pushArtifacts(toBuild): the artifacts are synced to the mirror.
\* A failed sync is logged; the nightly builder then marks every target of
\* the cycle as failed
PushArtifacts ==
    /\ bpc = "push"
    /\ \E ok \in BOOLEAN, dt \in Ticks :
        /\ clock' = clock + dt
        /\ cyc' = [cyc EXCEPT !.pushed = ok, !.active = @ - 1]
        /\ lastFailTimes' =
              IF ~ok /\ mode = "nightly"
              THEN [i \in 1..Len(targets) |->
                      IF InSeq(i, toBuild) THEN clock + dt ELSE lastFailTimes[i]]
              ELSE lastFailTimes
    /\ EndCycle
    /\ UNCHANGED <<cfgVars, pruneVars, lockVars, envVars, dpc, stopCaller, success, isRunning, elapsed,
                   attempts, script, calls, timer, dres, procVars, force, lastBuildTimes,
                   lastBuilt, hist>>

\* the driver calls of buildWin as the orchestrator sees them: each settles,
\* resolved or rejected
DriverStart ==
    /\ dpc = "start"
    /\ \E e \in {NoErr, Err("Failed to start VM"), Err("Unable to map network drive")} :
        Settle("start", e)
    /\ UNCHANGED <<cfgVars, pruneVars, lockVars, envVars, stopCaller, success, isRunning, elapsed, attempts,
                   script, calls, timer, procVars, bwVars, pollVars, hist>>

DriverRunScript ==
    /\ dpc = "runScript"
    /\ \E code \in ExitCodes :
        /\ Settle("runScript", run(ThisDriver, "z:\\tmp.cmd", code, << >>))
        /\ hist' = [hist EXCEPT !.guestCode = code, !.exited = TRUE, !.runs = @ + 1]
    /\ UNCHANGED <<cfgVars, pruneVars, lockVars, envVars, stopCaller, success, isRunning, elapsed, attempts,
                   script, calls, timer, procVars, bwVars, pollVars>>

DriverStop ==
    /\ dpc = "stop"
    /\ \E e \in {NoErr, Err("execFile")} :
        /\ Settle("stop", e)
        /\ hist' = [hist EXCEPT !.callerStop = IF e = NoErr THEN "returned" ELSE "threw"]
    /\ UNCHANGED <<cfgVars, pruneVars, lockVars, envVars, stopCaller, success, isRunning, elapsed, attempts,
                   script, calls, timer, procVars, bwVars, pollVars>>

InitPoll ==
    /\ mode \in {"nightly", "release"}
    /\ dongleCfg = FALSE
    /\ targets \in TargetConfigs
    /\ vmRunning = FALSE
    /\ dongleOn = FALSE
    /\ acpiSent = FALSE
    /\ tmpFile = FALSE
    /\ tmpText = << >>
    /\ PruneIdle
    /\ MainIdle
    /\ secrets = Secrets0
    /\ DriverIdle
    /\ bpc = "boot"
    /\ berr = NoErr
    /\ building = FALSE
    /\ force \in (IF mode = "nightly" THEN BOOLEAN ELSE {FALSE})
    /\ toBuild = << >>
    /\ cur = 0
    /\ buildNumber = 0
    /\ lastBuildTimes = [i \in 1..Len(targets) |-> [time |-> 0, number |-> 0]]
    /\ lastFailTimes = [i \in 1..Len(targets) |-> 0]
    /\ lastBuilt = [i \in 1..Len(targets) |-> [time |-> 0, number |-> 0]]
    /\ clock = 0
    /\ hist = Hist0
    /\ cyc = Cyc0

NextPoll == StartBuild \/ Poll \/ PollBusy \/ BuildLocal \/ BuildResolved
    \/ BuildRejected \/ PushArtifacts
    \/ BwPrepare \/ BwStarted \/ BwRan \/ BwCopy \/ BwStopped \/ BwRm
    \/ DriverStart \/ DriverRunScript \/ DriverStop

SpecPoll == InitPoll /\ [][NextPoll]_vars

\* the steps of a running cycle: each awaits external commands, files or the
\* mirror, and is taken once they have terminated
CycleStep == BuildLocal \/ BuildResolved \/ BuildRejected \/ PushArtifacts
    \/ BwPrepare \/ BwStarted \/ BwRan \/ BwCopy \/ BwStopped \/ BwRm
    \/ DriverStart \/ DriverRunScript \/ DriverStop

\* the nightly builder of SpecPoll with the Windows target configured first
InitPollLive == InitPoll /\ mode = "nightly" /\ targets = <<"win32", "linux">>

\* the nightly builder, every external command terminating
SpecPollLive == InitPollLive /\ [][NextPoll]_vars /\ WF_vars(CycleStep)

\* ----------------------------------------------------------- SpecScript
\* the arguments appendScript is called with: texts without a line break,
\* with and without a space, and the empty text
Args == {<< >>, <<"x">>, <<" ">>, <<"x", " ", "y">>}
ArgLists == UNION {[1..n -> Args] : n \in 0..MaxArgs}

\* builder.appendScript(...args) called on a driver
AppendCall ==
    /\ bpc = "script"
    /\ Len(calls) < MaxCalls
    /\ \E args \in ArgLists :
        /\ script' = appendScript(script, args)
        /\ calls' = Append(calls, args)
    /\ UNCHANGED <<cfgVars, pruneVars, lockVars, envVars, dpc, stopCaller, success, isRunning, elapsed,
                   attempts, timer, dres, procVars, bwVars, pollVars, hist>>

InitScript ==
    /\ mode \in {"nightly", "release"}
    /\ dongleCfg = FALSE
    /\ targets = <<"win32">>
    /\ vmRunning = FALSE
    /\ dongleOn = FALSE
    /\ acpiSent = FALSE
    /\ tmpFile = FALSE
    /\ tmpText = << >>
    /\ PruneIdle
    /\ MainIdle
    /\ secrets = Secrets0
    /\ DriverIdle
    /\ bpc = "script"
    /\ berr = NoErr
    /\ InBuild
    /\ hist = Hist0

NextScript == AppendCall

SpecScript == InitScript /\ [][NextScript]_vars

\* ---------------------------------------------------------- SpecSecrets
\* the script run of a Windows build attempt, for every choice of the
\* session's secrets: builder.start() has just resolved on a VM that was not
\* running before
InitSecrets ==
    /\ mode \in {"nightly", "release"}
    /\ dongleCfg = FALSE
    /\ targets = <<"win32">>
    /\ secrets \in SecretValues
    /\ vmRunning = TRUE
    /\ dongleOn = FALSE
    /\ acpiSent = FALSE
    /\ tmpFile = FALSE
    /\ tmpText = << >>
    /\ PruneIdle
    /\ MainIdle
    /\ dpc = "settled"
    /\ dres = [op |-> "start", err |-> NoErr]
    /\ stopCaller = "buildWin"
    /\ success = TRUE
    /\ isRunning = FALSE
    /\ elapsed = 0
    /\ attempts = 1
    /\ script = << >>
    /\ calls = << >>
    /\ timer = FALSE
    /\ out = << >>
    /\ delivered = 0
    /\ bpc = "bw_start"
    /\ berr = NoErr
    /\ InBuild
    /\ hist = [Hist0 EXCEPT !.startCalled = TRUE, !.reported = "no", !.polled = TRUE,
                            !.startQueries = 1, !.restored = TRUE,
                            !.pings = 1, !.startvms = 1, !.mapOk = TRUE,
                            !.cmds = <<"restore", "startvm", "pingok",
                                       "sharedfolder", "mapok">>]

NextSecrets == BwStarted \/ RunWrite \/ RunData \/ RunExit \/ RunFinally \/ BwRan

SpecSecrets == InitSecrets /\ [][NextSecrets]_vars

\* ------------------------------------------------------------- SpecStop
\* buildWin's finally block calls builder.stop() after the guest script
\* failed, on a VM that is still running or that has gone down meanwhile
InitStop ==
    /\ mode \in {"nightly", "release"}
    /\ dongleCfg \in BOOLEAN
    /\ targets = <<"win32">>
    /\ secrets = Secrets0
    /\ vmRunning \in BOOLEAN
    /\ dongleOn = dongleCfg
    /\ acpiSent = FALSE
    /\ tmpFile = FALSE
    /\ tmpText = << >>
    /\ PruneIdle
    /\ MainIdle
    /\ dpc = "stop"
    /\ dres = NoRes
    /\ stopCaller = "buildWin"
    /\ success = FALSE
    /\ isRunning = FALSE
    /\ elapsed = 0
    /\ attempts = 0
    /\ script = << >>
    /\ calls = << >>
    /\ timer = FALSE
    /\ out = << >>
    /\ delivered = 0
    /\ bpc = "bw_stop"
    /\ berr = BuildWinCatch(mode, Err("LoggableError"))
    /\ InBuild
    /\ hist = [Hist0 EXCEPT !.startCalled = TRUE, !.reported = "no", !.polled = TRUE,
                            !.startQueries = 1, !.restored = TRUE,
                            !.startvms = 1, !.mapOk = TRUE, !.reportedStarted = TRUE,
                            !.wrote = TRUE, !.unlinks = 1, !.runs = 1, !.exited = TRUE,
                            !.callerStop = "called", !.failed = TRUE,
                            !.cmds = <<"restore", "startvm", "pingok",
                                       "sharedfolder", "mapok", "run", "stop">>]

NextStop == StopBegin \/ StopPoll \/ StopPollExit \/ BwStopped

SpecStop == InitStop /\ [][NextStop]_vars

\* ---------------------------------------------------------- SpecVersion
\* the days on which builds are made: the first, second and last day of
\* January and the first and second day of February
VersionDays == {0, 1, 30, 31, 32}
VersionTimes == {d * HoursPerDay + h : d \in VersionDays, h \in {0, BuildHour}}
\* the largest build number of a last build
MaxNumber == 2

\* poll(): const [thisBuildVersion, buildNumber] =
\* getBuildVersion(this.lastBuildTimes[target.id]) at the time `clock`
GetVersion ==
    /\ bpc = "version"
    /\ buildNumber' = getBuildNumber(lastBuildTimes[toBuild[cur]], clock)
    /\ bpc' = "versioned"
    /\ UNCHANGED <<cfgVars, pruneVars, lockVars, envVars, dpc, stopCaller, success, isRunning, elapsed, attempts,
                   script, calls, timer, dres, procVars, berr, building, force, toBuild, cur,
                   lastBuildTimes, lastFailTimes, lastBuilt, clock, hist, cyc>>

\* the nightly builder begins the build of a target that was last built at
\* any earlier time, with any number
InitVersion ==
    /\ mode = "nightly"
    /\ dongleCfg = FALSE
    /\ targets = <<"win32">>
    /\ secrets = Secrets0
    /\ vmRunning = FALSE
    /\ dongleOn = FALSE
    /\ acpiSent = FALSE
    /\ tmpFile = FALSE
    /\ tmpText = << >>
    /\ PruneIdle
    /\ MainIdle
    /\ DriverIdle
    /\ bpc = "version"
    /\ berr = NoErr
    /\ building = TRUE
    /\ force = FALSE
    /\ toBuild = <<1>>
    /\ cur = 1
    /\ buildNumber = 0
    /\ \E t \in VersionTimes, n \in 0..MaxNumber :
          /\ lastBuildTimes = <<[time |-> t, number |-> n]>>
          /\ lastBuilt = lastBuildTimes
    /\ lastFailTimes = <<0>>
    /\ clock \in {t \in VersionTimes : t >= lastBuildTimes[1].time}
    /\ hist = Hist0
    /\ cyc = [Cyc0 EXCEPT !.started = {1}, !.active = 1]

NextVersion == GetVersion

SpecVersion == InitVersion /\ [][NextVersion]_vars

\* ------------------------------------------------------------ SpecPrune
\* pruneBuilds() on a directory of update packages.  A file name is a pair
\* <<n, ext>>: names that end in the same ext compare as their n do.
PruneExt == "nupkg"
test(f) == f[2] = PruneExt
FileNames == {<<n, PruneExt>> : n \in 1..MaxFiles} \cup {<<1, "RELEASES">>}

getMatchingFilesInDir(dir) == {f \in dir : test(f)}

\* Array.prototype.sort() on names that all match the pattern
RECURSIVE sort(_)
sort(S) ==
    IF S = {} THEN << >>
    ELSE LET f == CHOOSE x \in S : \A y \in S : x[1] <= y[1]
         IN <<f>> \o sort(S \ {f})

\* Array.prototype.slice(begin, end) for begin >= 0: a negative end counts
\* from the end of the array
slice(s, begin, end) ==
    LET k == IF end < 0 THEN Max(Len(s) + end, 0)
             ELSE IF end < Len(s) THEN end ELSE Len(s)
    IN SubSeq(s, begin + 1, k)

PruneSlice_KeepFirst(builds) == SubSeq(builds, KEEP_BUILDS_NUM + 1, Len(builds))

PruneSlice(builds) == slice(builds, 0, 0 - KEEP_BUILDS_NUM)

\* getMatchingFilesInDir, sort, slice
PruneList ==
    /\ ppc.at = "list"
    /\ LET builds == sort(getMatchingFilesInDir(pubDir))
       IN IF builds = << >>
          THEN ppc' = [at |-> "threw", i |-> 0] /\ UNCHANGED toDelete
          ELSE /\ toDelete' = PruneSlice(builds)
               /\ ppc' = IF toDelete' = << >> THEN [at |-> "pruned", i |-> 0]
                         ELSE [at |-> "unlink", i |-> 1]
    /\ UNCHANGED <<cfgVars, lockVars, envVars, pubDir, dpc, stopCaller, success, isRunning,
                   elapsed, attempts, script, calls, timer, dres, procVars, bwVars,
                   pollVars, hist>>

\* one round of the for loop: fsProm.unlink either removes the file or rejects
PruneUnlink ==
    /\ ppc.at = "unlink"
    /\ \E ok \in BOOLEAN :
          IF ok
          THEN /\ pubDir' = pubDir \ {toDelete[ppc.i]}
               /\ ppc' = IF ppc.i = Len(toDelete) THEN [at |-> "pruned", i |-> ppc.i]
                         ELSE [at |-> "unlink", i |-> ppc.i + 1]
          ELSE ppc' = [at |-> "threw", i |-> ppc.i] /\ UNCHANGED pubDir
    /\ UNCHANGED <<cfgVars, lockVars, envVars, toDelete, dpc, stopCaller, success, isRunning,
                   elapsed, attempts, script, calls, timer, dres, procVars, bwVars,
                   pollVars, hist>>

InitPrune ==
    /\ mode = "nightly"
    /\ dongleCfg = FALSE
    /\ targets = <<"win32">>
    /\ secrets = Secrets0
    /\ vmRunning = FALSE
    /\ dongleOn = FALSE
    /\ acpiSent = FALSE
    /\ tmpFile = FALSE
    /\ tmpText = << >>
    /\ pubDir \in SUBSET FileNames
    /\ ppc = [at |-> "list", i |-> 0]
    /\ toDelete = << >>
    /\ MainIdle
    /\ DriverIdle
    /\ bpc = "bw_copy"
    /\ berr = NoErr
    /\ building = TRUE
    /\ force = FALSE
    /\ toBuild = <<1>>
    /\ cur = 1
    /\ buildNumber = 1
    /\ lastBuildTimes = <<[time |-> 0, number |-> 0]>>
    /\ lastBuilt = lastBuildTimes
    /\ lastFailTimes = <<0>>
    /\ clock = 0
    /\ hist = Hist0
    /\ cyc = [Cyc0 EXCEPT !.started = {1}, !.active = 1]

NextPrune == PruneList \/ PruneUnlink

SpecPrune == InitPrune /\ [][NextPrune]_vars

\* ------------------------------------------------------------- SpecLock
\* The lock file of index.ts, for the processes started in one directory.
\* fs.existsSync
MainCheck(p) ==
    /\ mpc[p] = "check"
    /\ mpc' = [mpc EXCEPT ![p] = IF lockFile # NoPid THEN "exit1" ELSE "unlocked"]
    /\ UNCHANGED <<cfgVars, pruneVars, envVars, lockFile, dpc, stopCaller, success, isRunning,
                   elapsed, attempts, script, calls, timer, dres, procVars, bwVars,
                   pollVars, hist>>

\* process.on("beforeExit", ..) and fs.writeFileSync
MainWrite(p) ==
    /\ mpc[p] = "unlocked"
    /\ lockFile' = p
    /\ mpc' = [mpc EXCEPT ![p] = "running"]
    /\ UNCHANGED <<cfgVars, pruneVars, envVars, dpc, stopCaller, success, isRunning,
                   elapsed, attempts, script, calls, timer, dres, procVars, bwVars,
                   pollVars, hist>>

\* the event loop runs empty: the beforeExit handler calls fs.rmSync
MainBeforeExit(p) ==
    /\ mpc[p] = "running"
    /\ lockFile' = NoPid
    /\ mpc' = [mpc EXCEPT ![p] = "ended"]
    /\ UNCHANGED <<cfgVars, pruneVars, envVars, dpc, stopCaller, success, isRunning,
                   elapsed, attempts, script, calls, timer, dres, procVars, bwVars,
                   pollVars, hist>>

\* the process is ended from outside: no beforeExit event
MainKilled(p) ==
    /\ mpc[p] = "running"
    /\ mpc' = [mpc EXCEPT ![p] = "killed"]
    /\ UNCHANGED <<cfgVars, pruneVars, envVars, lockFile, dpc, stopCaller, success, isRunning,
                   elapsed, attempts, script, calls, timer, dres, procVars, bwVars,
                   pollVars, hist>>

\* the process is started again
MainStart(p) ==
    /\ mpc[p] \in {"exit1", "ended", "killed"}
    /\ mpc' = [mpc EXCEPT ![p] = "check"]
    /\ UNCHANGED <<cfgVars, pruneVars, envVars, lockFile, dpc, stopCaller, success, isRunning,
                   elapsed, attempts, script, calls, timer, dres, procVars, bwVars,
                   pollVars, hist>>

InitLock ==
    /\ mode \in {"nightly", "release"}
    /\ dongleCfg = FALSE
    /\ targets = <<"win32">>
    /\ secrets = Secrets0
    /\ vmRunning = FALSE
    /\ dongleOn = FALSE
    /\ acpiSent = FALSE
    /\ tmpFile = FALSE
    /\ tmpText = << >>
    /\ PruneIdle
    /\ lockFile = NoPid
    /\ mpc = [p \in Procs |-> "check"]
    /\ DriverIdle
    /\ bpc = "idle"
    /\ berr = NoErr
    /\ building = FALSE
    /\ force = FALSE
    /\ toBuild = << >>
    /\ cur = 0
    /\ buildNumber = 0
    /\ lastBuildTimes = <<[time |-> 0, number |-> 0]>>
    /\ lastBuilt = lastBuildTimes
    /\ lastFailTimes = <<0>>
    /\ clock = 0
    /\ hist = Hist0
    /\ cyc = Cyc0

NextLock == \E p \in Procs : \/ MainCheck(p)
                             \/ MainWrite(p)
                             \/ MainBeforeExit(p)
                             \/ MainKilled(p)
                             \/ MainStart(p)

SpecLock == InitLock /\ [][NextLock]_vars

\* ------------------------------------------------------------ properties
\* the text t occurs in the text l in full
Contains(l, t) == \E i \in 0..(Len(l) - Len(t)) : SubSeq(l, i + 1, i + Len(t)) = t

StartSettled == bpc = "bw_start" /\ dpc = "settled" /\ dres.op = "start"
RunScriptSettled == bpc = "bw_run" /\ dpc = "settled" /\ dres.op = "runScript"
AttemptOver == bpc \in {"done", "threw"}

\* C1: every Windows build attempt has invoked the driver's stop() by the time
\* it finishes, whatever start() did - stated for the attempts whose start()
\* started the VM, the case the claim singles out
C1_StopInvokedBeforeAttemptEnds ==
    (AttemptOver /\ hist.startCalled /\ hist.startvms > 0) => hist.callerStop # "none"

\* C3: a guest execution that exits with a non-zero code c after writing the
\* text T makes runScript() fail with an error that carries c and whose log
\* contains T in full, and runScript() succeeds only on exit status zero
C3_RunScriptFailureCarriesOutput ==
    (RunScriptSettled /\ hist.exited) =>
        /\ Truthy(hist.guestCode) =>
              /\ dres.err.kind = "LoggableError"
              /\ dres.err.code = hist.guestCode
              /\ Contains(dres.err.log, out)
        /\ (dres.err = NoErr) => hist.guestCode = 0

C6_StopNeverRaises == hist.callerStop # "threw" /\ hist.intStop # "threw"

\* C7: when no guest ping succeeds, start() fails with 'Failed to start VM',
\* not before the 90 s window that began with the polling has elapsed and
\* less than one ping plus one inter-attempt delay after it, having started
\* the VM once and without mapping the shared folder
C7_BootPollTimeout ==
    /\ (StartSettled /\ hist.polled /\ ~success) =>
          /\ dres.err = Err("Failed to start VM")
          /\ elapsed >= 90 * 1000
          /\ elapsed < 90 * 1000 + hist.lastPing + 2 * 1000
          /\ hist.startvms = 1
          /\ attempts = 0
          /\ ~InSeq("sharedfolder", hist.cmds)
          /\ ~InSeq("map", hist.cmds) /\ ~InSeq("mapok", hist.cmds)
    /\ (StartSettled /\ dres.err.kind = "Failed to start VM") =>
          hist.polled /\ ~success /\ ~InSeq("pingok", hist.cmds)
    /\ (dpc = "st_poll" /\ ~success) => elapsed < 90 * 1000 + hist.lastPing + 2 * 1000

\* C7 witness: start() has failed after a boot poll in which every ping failed
C7_Witness ==
    /\ StartSettled /\ hist.polled /\ ~success
    /\ dres.err.kind = "Failed to start VM"
    /\ elapsed >= STARTVM_TIMEOUT

\* C8: start() calls stop() before anything else touches the VM exactly when
\* the running-VM query reported the VM running; otherwise start() issues no
\* shutdown and no power-off request
C8_StopFirstIffRunning ==
    (bpc = "bw_start") =>
        /\ (hist.intStop # "none") <=> (hist.reported = "yes")
        /\ (hist.reported = "yes") => hist.cmds[1] = "stop"
        /\ (hist.reported # "yes") =>
              /\ ~InSeq("stop", hist.cmds)
              /\ ~InSeq("acpi", hist.cmds)
              /\ ~InSeq("poweroff", hist.cmds)
        /\ (hist.reported = "none") => hist.cmds = << >>

\* C8 witness: the query reported the VM running, the internal stop() has
\* returned and start() has gone on to restore the snapshot
C8_Witness ==
    /\ bpc = "bw_start" /\ hist.reported = "yes"
    /\ hist.intStop = "returned"
    /\ InSeq("restore", hist.cmds)

\* C9: start() issues no snapshot restore after an internal stop() that left
\* the VM running
C9_NoRestoreAfterFailedStop ==
    (hist.intStop = "returned" /\ hist.intStopLeft) => ~InSeq("restore", hist.cmds)

\* C2: in a nightly cycle no target is built after a target whose build
\* failed, and the artifacts of such a cycle are not pushed
C2_FailureAbortsCycle ==
    (mode = "nightly") =>
        \A i \in cyc.fails : (\A j \in cyc.started : j <= i) /\ ~cyc.pushed

\* the command line appendScript writes for the argument list args
CommandLine(args) == Join(JsFilter(args))

\* C10: the script consists of one command line per appendScript call, in call
\* order, each immediately followed by one guard line; as calls only grows at
\* its end, no call changes or removes the lines of an earlier one
C10_CommandThenGuardPerCall ==
    LET lines == LinesOf(script, << >>)
    IN  /\ Len(lines) = 2 * Len(calls)
        /\ \A k \in 1..Len(calls) :
              /\ lines[2 * k - 1] = CommandLine(calls[k])
              /\ lines[2 * k] = <<GUARD>>

\* two calls were made, with different arguments, one of them with a space
C10_Witness ==
    /\ bpc = "script"
    /\ Len(calls) >= 2
    /\ calls[1] # calls[2]
    /\ \E a \in 1..Len(calls[2]) : Includes(calls[2][a], " ")
    /\ Len(LinesOf(script, << >>)) = 2 * Len(calls)

\* the arguments as the line is to show them: an argument with a space
\* wrapped in double quotes, any other argument unchanged
QuotedArgs(args) == [i \in 1..Len(args) |-> FilterCallback(args[i])]

\* C11: the command line of every appendScript call holds every argument of
\* the call, in order, an argument with a space wrapped in double quotes and
\* an argument without a space unchanged; no argument is dropped
C11_ArgsQuotedNoneDropped ==
    LET lines == LinesOf(script, << >>)
    IN  \A k \in 1..Len(calls) :
            /\ 2 * k - 1 <= Len(lines)
            /\ lines[2 * k - 1] = Join(QuotedArgs(calls[k]))

\* runScript() has been called on the driver
RunScriptCalled ==
    \/ dpc \in {"runScript", "rs_exec", "rs_finally"}
    \/ hist.runs > 0 \/ hist.wrote
    \/ (dpc = "settled" /\ dres.op = "runScript")

\* C12: start() resolves only after a mapping attempt has verified the mapped
\* drive, buildWin reports the builder as started only after start() has
\* resolved, and runScript() is never called on a driver whose start() failed
C12_MappedBeforeScriptRuns ==
    /\ (StartSettled /\ dres.err = NoErr) =>
          hist.mapOk /\ hist.cmds[Len(hist.cmds)] = "mapok"
    /\ (StartSettled /\ dres.err # NoErr) => ~hist.reportedStarted /\ ~RunScriptCalled
    /\ hist.reportedStarted => hist.mapOk /\ InSeq("mapok", hist.cmds)
    /\ RunScriptCalled => hist.reportedStarted /\ hist.mapOk
    /\ (AttemptOver /\ ~hist.reportedStarted) => ~RunScriptCalled

\* C12 witness: the guest script runs on a driver whose start() resolved after
\* a verified mapping attempt
C12_Witness ==
    /\ dpc = "rs_exec" /\ hist.reportedStarted /\ hist.mapOk
    /\ InSeq("mapok", hist.cmds)

\* q is a prefix of r
IsPrefix(q, r) == Len(q) <= Len(r) /\ SubSeq(r, 1, Len(q)) = q

\* the VM operations of a start() that resolves, in the order the steps are
\* to be taken (repeated pings and repeated failed mapping attempts appear
\* once): the internal stop() with or without the forced power-off when the
\* VM was running, the snapshot restore, the VM start, the pings of which the
\* last succeeds, the shared folder and the mapping attempts of which the
\* last succeeds
StartOrders(stopped) ==
    {p \o <<"restore", "startvm">> \o g \o <<"sharedfolder">> \o m :
        p \in (IF stopped
               THEN {<<"stop", "acpi">>, <<"stop", "acpi", "poweroff">>}
               ELSE {<< >>}),
        g \in {<<"pingok">>, <<"ping", "pingok">>},
        m \in {<<"mapok">>, <<"map", "mapok">>}}

\* C13: a start() that resolves has taken its steps in the order internal
\* stop() (if the VM was running), snapshot restore, VM start, pings with only
\* the last successful, mapping with the last attempt successful; and while
\* start() runs the steps taken so far are the beginning of such an order
C13_StartStepsInOrder ==
    /\ (bpc = "bw_start" /\ hist.reported # "none") =>
          \E o \in StartOrders(hist.reported = "yes") : IsPrefix(hist.cmds, o)
    /\ (StartSettled /\ dres.err = NoErr) =>
          /\ hist.cmds \in StartOrders(hist.reported = "yes")
          /\ hist.reported = "yes" => hist.intStop = "returned"
          /\ hist.startvms = 1

\* C13 witness: start() has resolved with the VM found running, after failed
\* pings and a failed mapping attempt
C13_Witness ==
    /\ StartSettled /\ dres.err = NoErr /\ hist.reported = "yes"
    /\ InSeq("ping", hist.cmds) /\ InSeq("map", hist.cmds)

\* C14: the nightly builder pushes no artifact set while a target stands
\* failed, that is, has failed since it was last built: after a failure
\* nothing is built or pushed until the failed target is due again
C14_NoPushWhileTargetFailed ==
    (mode = "nightly" /\ cyc.pushed) =>
        \A t \in 1..Len(targets) : lastFailTimes[t] <= lastBuildTimes[t].time

\* C15: the artifacts are read from the dist directory of a Windows build only
\* after the driver's stop() of that attempt has completed
C15_DistReadAfterStop ==
    (hist.distRead # "none") => hist.distRead = "after"

\* start() left its boot poll at the deadline without a successful ping
BootPollTimedOut ==
    hist.polled /\ ~success /\ elapsed >= 90 * 1000 /\ ~InSeq("sharedfolder", hist.cmds)

\* every attempt of mapBuildDir() failed
MappingExhausted == hist.mapFails = 5 /\ ~hist.mapOk

\* C16: start() fails with the 'Failed to start VM' error exactly when the
\* boot poll timed out and with the 'Unable to map network drive' error
\* exactly when all mapping attempts were exhausted; the two errors differ
\* from each other and from every other failure of start()
C16_StartErrorTellsKind ==
    StartSettled =>
        /\ (dres.err.kind = "Failed to start VM") <=> BootPollTimedOut
        /\ (dres.err.kind = "Unable to map network drive") <=> MappingExhausted
        /\ ~(BootPollTimedOut /\ MappingExhausted)
        /\ (BootPollTimedOut \/ MappingExhausted) => dres.err.code = 0 /\ dres.err.log = << >>
        /\ (dres.err = NoErr) => ~BootPollTimedOut /\ ~MappingExhausted

\* C16 witness: start() has failed because all mapping attempts were exhausted
C16_Witness ==
    StartSettled /\ MappingExhausted /\ dres.err.kind = "Unable to map network drive"

\* a Windows session is in use: buildWin is running or a driver call is
\* under way
SessionActive ==
    \/ bpc \in {"bw_prepare", "bw_start", "bw_run", "bw_copy", "bw_stop", "bw_rm"}
    \/ dpc # "idle"

\* C17: at most one build cycle is in progress, it is in progress exactly
\* while the building flag is set, and a build or a Windows session is under
\* way only inside that one cycle: a poll tick never starts a second one
C17_OneCycleAtATime ==
    /\ cyc.active \in {0, 1}
    /\ building <=> cyc.active = 1
    /\ (bpc \notin {"boot", "idle", "exit"}) => building
    /\ SessionActive => building /\ cyc.active = 1
    /\ building => cur \in 1..Len(toBuild) /\ cyc.started = 1..cur

\* C17 witness: the nightly builder is inside a cycle, running the guest
\* script of a Windows target, while the interval timer goes on ticking
C17_Witness ==
    /\ mode = "nightly" /\ building /\ cyc.active = 1
    /\ bpc = "bw_run" /\ dpc = "runScript"
    /\ ENABLED PollBusy

\* C18: spawn() reports success exactly when the process ended with exit code
\* 0; a non-zero exit code and an end without an exit code are failures, and
\* the failure for exit code c carries c
C18_SuccessIffExitZero ==
    (dpc = "rs_finally" /\ hist.exited) =>
        /\ (dres.err = NoErr) <=> (hist.guestCode = 0)
        /\ (hist.guestCode > 0) => dres.err.code = hist.guestCode

\* C19: the error spawn() raises for a non-zero exit embeds every chunk the
\* process wrote, in whatever order the 'data' events and the 'exit' event
\* were delivered
C19_ErrorEmbedsAllOutput ==
    (dpc = "rs_finally" /\ dres.err.kind = "LoggableError") =>
        /\ Len(dres.err.log) = Len(out) + 2
        /\ \A i \in 1..Len(out) : dres.err.log[i + 1] = out[i]

\* the driver of a session that differs from this one only in its secrets
DriverWith(sec) ==
    [ThisDriver EXCEPT !.password = sec.password, !.keyContainer = sec.keyContainer,
                       !.apiKey = sec.apiKey, !.env = getBuildEnv(sec.apiKey)]

\* C20: the content of the script file runScript() writes is the same for
\* every session that differs from this one only in the secrets and holds
\* none of them; the secrets are arguments of the guest-execute call
C20_ScriptFileFreeOfSecrets ==
    tmpFile =>
        /\ \A sec \in SecretValues : tmpText = fileContents(DriverWith(sec))
        /\ \A i \in 1..Len(tmpText) :
              tmpText[i] \notin {secrets.password, secrets.keyContainer, secrets.apiKey}
        /\ \A x \in {secrets.password, "SIGNING_KEY_CONTAINER=" \o secrets.keyContainer,
                    "BUILDKITE_API_KEY=" \o secrets.apiKey} :
              InSeq(x, guestCtlArgs(ThisDriver, "z:\\tmp.cmd"))

\* C20 witness: the script file of a session exists while its guest
\* execution runs, the session's secrets being other than the first choice
C20_Witness ==
    /\ tmpFile /\ dpc = "rs_exec" /\ Len(tmpText) > Len(script)
    /\ secrets.password = "pw2" /\ secrets.keyContainer = "kc2" /\ secrets.apiKey = "api2"

\* C21: stop() called on a VM that is already stopped returns normally,
\* issues no forced power-off and leaves the VM stopped
C21_StopOnStoppedVmReturns ==
    (hist.vmAtStop = "stopped") =>
        /\ hist.callerStop # "threw" /\ hist.intStop # "threw"
        /\ ~hist.stopForced
        /\ ~vmRunning

\* a stop() has returned and its result has not been overwritten yet: the one
\* start() called before the snapshot restore, or the one buildWin awaited
StopJustReturned ==
    \/ dpc = "st_restore" /\ hist.intStop = "returned"
    \/ dpc = "settled" /\ dres.op = "stop" /\ dres.err = NoErr

\* C27: stop() requests the graceful shutdown before it polls; it issues the
\* forced power-off exactly when the last running-state query reported the VM
\* running and the 20 s deadline has passed, and never when the VM was
\* reported stopped before the deadline; no power-off is issued while it polls
C27_PowerOffIffRunningAtDeadline ==
    /\ (dpc = "sp_poll") =>
          /\ ~hist.stopForced
          /\ hist.cmds[Len(hist.cmds)] = "acpi"
          /\ elapsed <= POWEROFF_TIMEOUT
    /\ StopJustReturned =>
          /\ hist.stopForced <=> (isRunning /\ elapsed >= 20 * 1000)
          /\ (~isRunning /\ elapsed < 20 * 1000) => ~hist.stopForced
          /\ hist.stopForced => hist.cmds[Len(hist.cmds)] = "poweroff"
          /\ elapsed >= StopPollDelay
    /\ hist.stopForced => InSeq("acpi", hist.cmds)

\* C27 witness: a stop() has returned after the VM was still reported running
\* at the deadline and the forced power-off was issued
C27_Witness ==
    StopJustReturned /\ hist.stopForced /\ isRunning /\ elapsed = POWEROFF_TIMEOUT

\* C27 witness of the other case: a stop() has returned before the deadline
\* without the forced power-off, the VM having shut down
C27_WitnessClean ==
    StopJustReturned /\ ~hist.stopForced /\ ~isRunning /\ elapsed < POWEROFF_TIMEOUT
        /\ hist.vmAtStop = "running" /\ ~vmRunning

\* C22: start() makes one running-VM query; when that query fails start()
\* fails with the query's error at once: no snapshot restore, no VM start
\* and no other VM command is issued, and buildWin does not go on
C22_QueryFailureFailsStart ==
    /\ hist.startQueries <= 1
    /\ (hist.reported # "none") <=> (hist.startQueries = 1)
    /\ (hist.reported = "failed") =>
          /\ hist.cmds = << >>
          /\ hist.startvms = 0 /\ hist.intStop = "none" /\ ~hist.polled
          /\ bpc \in {"bw_start", "threw"}
          /\ (bpc = "bw_start") => StartSettled /\ dres.err = Err("execFile")
          /\ (bpc = "threw") => berr = Err("execFile")

\* C22 witness: start() has failed with the error of the query, the VM
\* running all along
C22_Witness ==
    StartSettled /\ hist.reported = "failed" /\ dres.err.kind = "execFile" /\ vmRunning

\* C23: when a poll of the nightly builder without the force flag schedules
\* targets for building, every scheduled target whose build failed before at
\* a time t satisfies getNextBuildTime(t) < now
C23_FailedTargetWaitsForSchedule ==
    [][(mode = "nightly" /\ toBuild' # toBuild /\ ~force) =>
          \A p \in cyc.failedAt :
              InSeq(p[1], toBuild') => getNextBuildTime(p[2]) < clock']_vars

\* C23 witness: a target that failed before is being built again, the next
\* scheduled build time after the failure having passed
C23_Witness ==
    /\ mode = "nightly" /\ building /\ cur \in 1..Len(toBuild)
    /\ bpc \in {"bw_prepare", "local"}
    /\ \E p \in cyc.failedAt : p[1] = toBuild[cur] /\ getNextBuildTime(p[2]) < clock

\* C24: a runScript() call executes the script in the guest once - never
\* twice, and once whenever it got as far as writing the script file - and
\* after the execution, failed or not, the attempt issues no further script
\* run, snapshot restore or VM start: only the shutdown of stop() follows
C24_ScriptRunOnceNoRetry ==
    /\ hist.runs <= 1
    /\ hist.startvms <= 1
    /\ (RunScriptSettled /\ hist.wrote) => hist.runs = 1 /\ hist.exited
    /\ \A i \in 1..Len(hist.cmds) :
          hist.cmds[i] = "run" =>
              \A j \in (i + 1)..Len(hist.cmds) :
                  hist.cmds[j] \in {"stop", "acpi", "poweroff"}

\* C24 witness: the guest execution failed, runScript() rejected and
\* buildWin's stop() has returned, the script having run once
C24_Witness ==
    /\ bpc = "bw_stop" /\ hist.failed /\ hist.exited /\ hist.runs = 1
    /\ hist.callerStop = "returned"
    /\ hist.cmds[Len(hist.cmds)] \in {"acpi", "poweroff"}

\* C25: heartbeat messages are logged only while the guest execution of
\* runScript() is in flight, the k-th of them reporting k minutes; the
\* interval is set only from the writing of the script file to the finally
\* block, so that no heartbeat follows once runScript() has settled
C25_HeartbeatOnlyWhileRunning ==
    /\ ~hist.lateBeat
    /\ hist.beatMins = hist.beats
    /\ (hist.beats > 0) => hist.wrote /\ hist.runs = 1
    /\ timer => dpc \in {"rs_exec", "rs_finally"}
    /\ (dpc \notin {"rs_exec", "rs_finally"}) => ~ENABLED Heartbeat

\* C25 witness: runScript() has rejected after a guest execution during
\* which two heartbeats were logged, and the interval is cleared
C25_Witness ==
    /\ RunScriptSettled /\ dres.err # NoErr
    /\ hist.beats = 2 /\ hist.beatMins = 2 /\ ~timer

\* C26: every guest execution of a build script is preceded, in its session,
\* by a snapshot restore that ran to its end, and it is the only script
\* executed since that restore
C26_ScriptRunsOnRestoredSnapshot ==
    (hist.runs > 0) =>
        /\ hist.restored
        /\ hist.runs = 1
        /\ \E i \in 1..Len(hist.cmds) :
              /\ hist.cmds[i] = "restore"
              /\ \E j \in (i + 1)..Len(hist.cmds) : hist.cmds[j] = "run"

C29_ReleaseScriptFailureEndsCycle ==
    (mode = "release") =>
        /\ hist.scriptFailed =>
              /\ bpc \in {"bw_stop", "threw"}
              /\ hist.callerStop # "none"
              /\ berr # NoErr
              /\ (bpc = "threw") => hist.callerStop \in {"returned", "threw"}
        /\ \A i \in cyc.scriptFails :
              /\ bpc = "exit" /\ ~building
              /\ i \in cyc.fails
              /\ \A j \in cyc.started : j <= i
              /\ ~cyc.pushed

\* C29 witness: the release builder has ended its cycle after the guest
\* script of its first target, a Windows target, failed; the second target
\* was never started
C29_Witness ==
    /\ mode = "release" /\ bpc = "exit"
    /\ Len(targets) = 2 /\ targets[1] = "win32"
    /\ cyc.scriptFails = {1} /\ cyc.started = {1} /\ ~cyc.pushed

\* C30: a target's last-build time and build number, in memory and in the
\* persisted file, change only in a step that ends a build attempt of that
\* target in which no step failed - for a Windows target, an attempt whose
\* guest script ran without failing and whose artifacts were copied
C30_LastBuildAdvancesOnSuccessOnly ==
    [][\A t \in 1..Len(targets) :
          (lastBuildTimes'[t] # lastBuildTimes[t] \/ lastBuilt'[t] # lastBuilt[t]) =>
              /\ bpc = "done" /\ toBuild[cur] = t
              /\ ~hist.failed
              /\ (targets[t] = "win32") =>
                    hist.exited /\ ~hist.scriptFailed /\ hist.distRead # "none"]_vars

\* C31: whenever the nightly builder is between cycles the building flag is
\* false and no error is pending, so that poll() can start a new cycle, and
\* every cycle that has started ends - all external commands terminating
C31_CycleEndsFlagCleared ==
    /\ []((mode = "nightly" /\ bpc = "idle") =>
              (~building /\ berr = NoErr /\ cyc.active = 0 /\ ENABLED Poll))
    /\ []((mode = "nightly" /\ building) => bpc \notin {"idle", "exit"})
    /\ ((mode = "nightly" /\ building) ~> (bpc = "idle" /\ ~building))

\* C31 witness: a new cycle of the nightly builder is under way after a
\* cycle in which a target failed
C31_Witness ==
    /\ mode = "nightly" /\ building /\ cyc.failedAt # {}
    /\ cyc.fails = {} /\ cyc.started = {1}
    /\ bpc \in {"bw_prepare", "local"}

\* C32: the build number is the last build's number plus one when the last
\* build of the target was made on the calendar day of the current build,
\* and 1 when it was made on any other day
C32_BuildNumberCountsBuildsOfDay ==
    (bpc = "versioned") =>
        buildNumber = IF DayOf(lastBuildTimes[1].time) = DayOf(clock)
                      THEN lastBuildTimes[1].number + 1
                      ELSE 1

\* C33: for every date d that a poll of the nightly builder hands to
\* getNextBuildTime - the later of a target's last build and last failure -
\* the result is later than d and is 9:00 on the calendar day after d
C33_NextBuildIsNineNextMorning ==
    [][(mode = "nightly" /\ bpc = "idle") =>
          \A i \in 1..Len(targets) :
              LET d == Max(lastBuildTimes[i].time, lastFailTimes[i])
              IN  /\ getNextBuildTime(d) > d
                  /\ getNextBuildTime(d) = (DayOf(d) + 1) * HoursPerDay + 9]_vars


\* C34: after pruneBuilds has run on a directory, at most 14 files matching
\* the pattern remain, they are the last in sorted name order (every file it
\* deleted sorts before every matching file it kept, and it deleted none
\* unless 14 were left), and no file that does not match is ever deleted
C34_PruneKeepsLastFourteen ==
    /\ [](ppc.at = "pruned" =>
            /\ Cardinality(getMatchingFilesInDir(pubDir)) <= KEEP_BUILDS_NUM
            /\ \A i \in 1..Len(toDelete) :
                  /\ toDelete[i] \notin pubDir
                  /\ \A g \in getMatchingFilesInDir(pubDir) : toDelete[i][1] < g[1]
            /\ (toDelete # << >> => Cardinality(getMatchingFilesInDir(pubDir)) = KEEP_BUILDS_NUM))
    /\ [][\A f \in pubDir \ pubDir' : test(f) /\ InSeq(f, toDelete)]_vars
C34_Witness ==
    /\ ppc.at = "pruned"
    /\ Len(toDelete) = 2
    /\ <<1, "RELEASES">> \in pubDir
    /\ <<2, PruneExt>> \notin pubDir

\* C35: a poll that finds the force flag set selects every configured
\* target, whatever its schedule, and starts the cycle; every poll leaves the
\* flag cleared; no step sets the flag, so only the first poll can be forced;
\* and a poll that finds the flag cleared selects exactly the targets whose
\* next build time has passed
C35_ForceOnlyFirstPoll ==
    [][/\ (~force => ~force')
       /\ (mode = "nightly" /\ bpc = "idle") =>
             /\ ~force'
             /\ force => /\ toBuild' = [i \in 1..Len(targets) |-> i]
                         /\ building' /\ cyc'.started = {1}
             /\ ~force => toBuild' =
                   SelectSeq([i \in 1..Len(targets) |-> i],
                             LAMBDA i : getNextBuildTime(Max(lastBuildTimes[i].time,
                                                             lastFailTimes[i])) < clock')]_vars
C35_Witness ==
    /\ mode = "nightly" /\ building /\ ~force /\ cyc.active = 1
    /\ bpc \in {"bw_prepare", "local"} /\ cur = 1
    /\ toBuild = [i \in 1..Len(targets) |-> i]
    /\ \E i \in 1..Len(targets) :
          ~(getNextBuildTime(Max(lastBuildTimes[i].time, lastFailTimes[i])) < clock)

\* C36: the signing dongle is powered only while a session is ready: it is on
\* only after a start() that verified the drive mapping has run its last
\* step, and it is off when stop() has returned and when start() has failed
C36_DongleOnOnlyWhileReady ==
    /\ dongleOn => hist.mapOk /\ dpc # "st_dongle"
    /\ StopJustReturned => ~dongleOn
    /\ (dpc = "settled" /\ dres.op = "start" /\ dres.err # NoErr) => ~dongleOn

\* C37: no control-channel command that the driver issued and that failed is
\* left as a rejected promise with no handler: every failure is thrown to
\* the driver's caller or caught inside the driver
C37_NoUnhandledRejection == ~hist.unhandled

\* C38: the log text of a failed guest command is the same for every session
\* that differs from this one only in its secrets: the same guest execution,
\* ending with the same exit code after the same output, run with another
\* guest password, API key or signing-key identifier yields the same log
C38_FailureLogFreeOfSecrets ==
    (dpc = "rs_finally" /\ hist.exited /\ dres.err.kind = "LoggableError") =>
        \A sec \in SecretValues :
            dres.err.log = run(DriverWith(sec), "z:\\tmp.cmd", hist.guestCode,
                               SubSeq(out, 1, delivered)).log

\* C39: at most one builder process is past the lock-file check in a working
\* directory at any time, and the step by which a process exits on finding
\* the lock file leaves the lock file as it is
C39_OneProcessPastLockCheck ==
    /\ [](Cardinality({p \in Procs : mpc[p] \in {"unlocked", "running"}}) <= 1)
    /\ [][\A p \in Procs : (mpc'[p] = "exit1" /\ mpc[p] # "exit1") =>
                              lockFile' = lockFile /\ lockFile # NoPid]_vars

====
